---- MODULE Spec2Model ----
(***************************************************************************)
(* FGU character sheet generator (server.js): the tree normalizer safeGet, *)
(* the helper functions, generateCharacterHTML and the POST /generate      *)
(* handler.                                                                *)
(*                                                                         *)
(* JavaScript values are tagged records [t, v]:                            *)
(*   "str"  a string, v its characters (a sequence of 1-character strings) *)
(*   "num"  an integer number          "nan"  the number NaN               *)
(*   "arr"  an array, v its elements                                       *)
(*   "obj"  an object, v its own properties in insertion order, each a     *)
(*          record [key, val]                                              *)
(*   "undef" undefined                                                     *)
(* xml2js (^0.6.2) builds its objects without a prototype, so an object    *)
(* has own keys only; an array has its indices and its "length".           *)
(***************************************************************************)
EXTENDS Integers, Sequences, FiniteSets, TLC

VARIABLES call, ret, pc, req, tree, view, html, res

vars == <<call, ret, pc, req, tree, view, html, res>>

\* ------------------------------------------------------------ bounds
\* nesting depth of the single-element sequences wrapped around a scalar
MaxWrap == 2
\* number of segments of a dotted path given to safeGet
MaxPathLen == 3
\* largest total level given to getProficiencyBonus
MaxLevel == 20
\* number of class entries of an uploaded character
MaxClasses == 2
\* number of spell entries of an uploaded character
MaxSpells == 3
\* largest modifier given to formatModifier, the smallest being its negative
MaxModifier == 5
MaxParagraphs == 2

\* ------------------------------------------------------------ JS values
Str(s) == [t |-> "str", v |-> s]
Num(n) == [t |-> "num", v |-> n]
Arr(e) == [t |-> "arr", v |-> e]
Obj(props) == [t |-> "obj", v |-> props]
NaN == [t |-> "nan", v |-> 0]
Undefined == [t |-> "undef", v |-> 0]
\* a variable not assigned yet
NoValue == [t |-> "none", v |-> 0]
\* one call of a helper function: the function and its arguments
Call(fn, obj, path, def) == [fn |-> fn, obj |-> obj, path |-> path, def |-> def]
Prop(k, x) == [key |-> k, val |-> x]
EmptyStr == Str(<<>>)
EmptyObj == Obj(<<>>)

\* truthiness of a value: `result && ...`, `result || defaultValue`
Truthy(x) ==
  CASE x.t = "str" -> Len(x.v) > 0
    [] x.t = "num" -> x.v # 0
    [] x.t = "nan" -> FALSE
    [] x.t = "undef" -> FALSE
    [] OTHER -> TRUE

\* typeof x === 'object' (no null in a parsed tree)
IsObject(x) == x.t \in {"arr", "obj"}

\* the array index a key names: "0" -> 1, "1" -> 2, "2" -> 3; 0 when the key
\* is no canonical index
ArrayIndex(key) ==
  CASE key = "0" -> 1
    [] key = "1" -> 2
    [] key = "2" -> 3
    [] OTHER -> 0

OwnKeys(x) == {x.v[i].key : i \in 1..Len(x.v)}

\* `key in result`
HasKey(x, key) ==
  CASE x.t = "obj" -> key \in OwnKeys(x)
    [] x.t = "arr" -> \/ (ArrayIndex(key) >= 1 /\ ArrayIndex(key) <= Len(x.v))
                      \/ key = "length"
    [] OTHER -> FALSE

\* `result[key]`
GetProp(x, key) ==
  CASE x.t = "obj" /\ key \in OwnKeys(x) ->
         (LET i == CHOOSE j \in 1..Len(x.v) : x.v[j].key = key IN x.v[i].val)
    [] x.t = "arr" /\ ArrayIndex(key) >= 1 /\ ArrayIndex(key) <= Len(x.v) ->
         x.v[ArrayIndex(key)]
    [] x.t = "arr" /\ key = "length" -> Num(Len(x.v))
    [] OTHER -> Undefined

\* ------------------------------------------------------------ safeGet
\* the walk of lines 29-36: [found, val]; found is FALSE when a segment is
\* missing and the function returns defaultValue at once
RECURSIVE Walk(_, _, _)
Walk(result, keys, i) ==
  IF i > Len(keys) THEN [found |-> TRUE, val |-> result]
  ELSE IF Truthy(result) /\ IsObject(result) /\ HasKey(result, keys[i])
       THEN Walk(GetProp(result, keys[i]), keys, i + 1)
       ELSE [found |-> FALSE, val |-> result]

\* mutant of Unwrap: `if` in place of `while`, one level unwrapped
UnwrapOnce(result) ==
  IF result.t = "arr" /\ Len(result.v) = 1 THEN result.v[1] ELSE result

\* lines 38-40: unwrap single-element arrays
RECURSIVE Unwrap(_)
Unwrap(result) ==
  IF result.t = "arr" /\ Len(result.v) = 1 THEN Unwrap(result.v[1]) ELSE result

\* lines 42-50: text markers and the final default
AfterUnwrap(result, defaultValue) ==
  IF Truthy(result) /\ IsObject(result) /\ HasKey(result, "_")
    THEN GetProp(result, "_")
  ELSE IF Truthy(result) /\ IsObject(result) /\ HasKey(result, "$t")
    THEN GetProp(result, "$t")
  ELSE IF Truthy(result) THEN result ELSE defaultValue

\* mutant of safeGet: a missing segment yields '' whatever the default
safeGetEmptyOnMissing(obj, path, defaultValue) ==
  LET w == Walk(obj, path, 1) IN
  IF ~w.found THEN EmptyStr
  ELSE AfterUnwrap(Unwrap(w.val), defaultValue)

\* path is the dotted path already split on "." (line 28)
safeGet(obj, path, defaultValue) ==
  LET w == Walk(obj, path, 1) IN
  IF ~w.found THEN defaultValue
  ELSE AfterUnwrap(Unwrap(w.val), defaultValue)

\* ------------------------------------------------------------ strings, numbers
\* a TypeError raised by an operation, as a value
Throw == [t |-> "throw", v |-> 0]

DigitChars == <<"0", "1", "2", "3", "4", "5", "6", "7", "8", "9">>
DigitSet == {DigitChars[i] : i \in 1..10}
DigitValue(c) == (CHOOSE i \in 1..10 : DigitChars[i] = c) - 1
WhiteSpace == {" ", "\t", "\n"}

\* the decimal digits of a natural number
RECURSIVE NatText(_)
NatText(n) ==
  IF n < 10 THEN <<DigitChars[n + 1]>>
  ELSE NatText(n \div 10) \o <<DigitChars[(n % 10) + 1]>>

IntText(n) == IF n < 0 THEN <<"-">> \o NatText(0 - n) ELSE NatText(n)

\* Array.prototype.join(sep) over texts
RECURSIVE JoinText(_, _)
JoinText(texts, sep) ==
  IF Len(texts) = 0 THEN <<>>
  ELSE IF Len(texts) = 1 THEN texts[1]
  ELSE texts[1] \o sep \o JoinText(Tail(texts), sep)

\* the characters of String(x) / `${x}` when the conversion does not raise
RECURSIVE ToText(_)
ToText(x) ==
  CASE x.t = "str" -> x.v
    [] x.t = "num" -> IntText(x.v)
    [] x.t = "nan" -> <<"N", "a", "N">>
    [] x.t = "undef" -> <<"u", "n", "d", "e", "f", "i", "n", "e", "d">>
    [] x.t = "arr" ->
         JoinText([i \in 1..Len(x.v) |->
                     IF x.v[i].t = "undef" THEN <<>> ELSE ToText(x.v[i])], <<",">>)
    [] OTHER -> <<>>

\* whether String(x) raises: an object of the parsed tree has no prototype,
\* so converting it to a primitive raises a TypeError
RECURSIVE ToStringThrows(_)
ToStringThrows(x) ==
  CASE x.t \in {"obj", "throw"} -> TRUE
    [] x.t = "arr" -> \E i \in 1..Len(x.v) : ToStringThrows(x.v[i])
    [] OTHER -> FALSE

JsString(x) == IF ToStringThrows(x) THEN Throw ELSE Str(ToText(x))

\* String.prototype.trim()
RECURSIVE TrimLeft(_)
TrimLeft(s) ==
  IF Len(s) > 0 /\ Head(s) \in WhiteSpace THEN TrimLeft(Tail(s)) ELSE s

RECURSIVE TrimRight(_)
TrimRight(s) ==
  IF Len(s) > 0 /\ s[Len(s)] \in WhiteSpace
    THEN TrimRight(SubSeq(s, 1, Len(s) - 1)) ELSE s

Trim(s) == TrimRight(TrimLeft(s))

\* the value of the longest prefix of decimal digits of s, acc the value so far
RECURSIVE DigitsValue(_, _)
DigitsValue(s, acc) ==
  IF Len(s) > 0 /\ Head(s) \in DigitSet
    THEN DigitsValue(Tail(s), acc * 10 + DigitValue(Head(s)))
    ELSE acc

\* parseInt(x): leading white space skipped, an optional sign, then the
\* longest prefix of decimal digits; NaN when there is no digit
parseInt(x) ==
  IF ToStringThrows(x) THEN Throw
  ELSE
    LET s == TrimLeft(ToText(x))
        signed == Len(s) > 0 /\ Head(s) \in {"-", "+"}
        body == IF signed THEN Tail(s) ELSE s
    IN IF Len(body) = 0 \/ Head(body) \notin DigitSet THEN NaN
       ELSE IF signed /\ Head(s) = "-" THEN Num(0 - DigitsValue(body, 0))
       ELSE Num(DigitsValue(body, 0))

\* a + b on numbers
NumAdd(a, b) ==
  IF a.t = "num" /\ b.t = "num" THEN Num(a.v + b.v) ELSE NaN

\* a === b on values
SameValue(a, b) == a.t = b.t /\ a = b

\* `x || d` on values
OrElse(x, d) == IF Truthy(x) THEN x ELSE d

\* ------------------------------------------------------------ helpers
\* the entity a character is replaced by (lines 56-60)
EscapeChar(c) ==
  CASE c = "&" -> <<"&", "a", "m", "p", ";">>
    [] c = "<" -> <<"&", "l", "t", ";">>
    [] c = ">" -> <<"&", "g", "t", ";">>
    [] c = "\"" -> <<"&", "q", "u", "o", "t", ";">>
    [] c = "'" -> <<"&", "#", "0", "3", "9", ";">>
    [] OTHER -> <<c>>

RECURSIVE EscapeText(_)
EscapeText(s) ==
  IF Len(s) = 0 THEN <<>> ELSE EscapeChar(Head(s)) \o EscapeText(Tail(s))

escapeHtml(text) ==
  IF ~Truthy(text) THEN EmptyStr
  ELSE IF ToStringThrows(text) THEN Throw
  ELSE Str(EscapeText(ToText(text)))

formatModifier(value) ==
  LET val == parseInt(value) IN
  IF val.t = "throw" THEN value
  ELSE IF val.t = "num" /\ val.v >= 0 THEN Str(<<"+">> \o IntText(val.v))
  ELSE JsString(val)

\* mutant of getProficiencyBonus: level / 4 in place of (level - 1) / 4
getProficiencyBonusOffByOne(level) ==
  LET lvl == parseInt(level) IN
  IF lvl.t = "num" THEN Num(2 + (lvl.v \div 4)) ELSE NaN

getProficiencyBonus(level) ==
  LET lvl == parseInt(level) IN
  IF lvl.t = "throw" THEN Num(2)
  ELSE IF lvl.t = "num" THEN Num(2 + ((lvl.v - 1) \div 4))
  ELSE NaN

\* ------------------------------------------------------------ xml2js
\* An XML element: its tag, whether it carries attributes (type="..."), its
\* character content and its child elements in document order.
Leaf(tag, text) == [tag |-> tag, attr |-> FALSE, text |-> text, kids |-> <<>>]
Typed(tag, text) == [tag |-> tag, attr |-> TRUE, text |-> text, kids |-> <<>>]
Elem(tag, kids) == [tag |-> tag, attr |-> FALSE, text |-> <<>>, kids |-> kids]
Mixed(tag, text, kids) == [tag |-> tag, attr |-> FALSE, text |-> text, kids |-> kids]

IsBlank(s) == \A i \in 1..Len(s) : s[i] \in WhiteSpace

\* the distinct tags of a sequence of elements, in order of first occurrence
RECURSIVE DistinctTags(_)
DistinctTags(kids) ==
  IF Len(kids) = 0 THEN <<>>
  ELSE LET rest == DistinctTags(SubSeq(kids, 1, Len(kids) - 1))
           last == kids[Len(kids)].tag
       IN IF \E i \in 1..Len(rest) : rest[i] = last THEN rest
          ELSE Append(rest, last)

\* xml2js with explicitArray: true: an element without attributes or children
\* is its text; otherwise an object holding the non-blank text under "_", the
\* attributes under "$" and, per child tag, the array of the children's values
RECURSIVE NodeValue(_)
NodeValue(n) ==
  IF ~n.attr /\ Len(n.kids) = 0 THEN Str(n.text)
  ELSE
    LET tags == DistinctTags(n.kids)
        KidsOf(tg) == LET Is(k) == k.tag = tg IN SelectSeq(n.kids, Is)
        childProps == [i \in 1..Len(tags) |->
                         Prop(tags[i],
                              Arr([j \in 1..Len(KidsOf(tags[i])) |->
                                     NodeValue(KidsOf(tags[i])[j])]))]
    IN Obj((IF IsBlank(n.text) THEN <<>> ELSE <<Prop("_", Str(n.text))>>)
           \o (IF n.attr
                 THEN <<Prop("$", Obj(<<Prop("type", Str(<<"t">>))>>))>>
                 ELSE <<>>)
           \o childProps)

\* parser.parseStringPromise(xmlContent) on a well-formed document
ParseResult(root) == Obj(<<Prop(root.tag, NodeValue(root))>>)

\* ------------------------------------------------------------ extraction
\* keys of the entries stored as id-00001, id-00002, ...
IdKeys == {"id-00001", "id-00002", "id-00003", "id-00004"}
StartsWithId(key) == key \in IdKeys

\* Object.keys(data).forEach(key => { if (key.startsWith('id-')) ...
\* data[key][0] ... }): the entries in key order
IdEntries(data) ==
  IF data.t # "obj" THEN <<>>
  ELSE LET IsId(pr) == StartsWithId(pr.key)
           props == SelectSeq(data.v, IsId)
       IN [i \in 1..Len(props) |-> GetProp(props[i].val, "0")]

\* line 82
CharOf(characterData) == safeGet(characterData, <<"character">>, EmptyObj)

\* lines 97-109: one record per id- entry of classes
ClassEntries(char) ==
  LET es == IdEntries(safeGet(char, <<"classes", "0">>, EmptyObj)) IN
  [i \in 1..Len(es) |->
     [name |-> safeGet(es[i], <<"name", "0">>, EmptyStr),
      level |-> safeGet(es[i], <<"level", "0">>, EmptyStr),
      specialization |-> safeGet(es[i], <<"specialization", "0">>, EmptyStr)]]

\* parseInt(classLevel) || 0 (line 103)
LevelNum(classLevel) == OrElse(parseInt(classLevel), Num(0))

\* lines 92, 104: the sum of the entries' levels
RECURSIVE SumLevels(_)
SumLevels(entries) ==
  IF Len(entries) = 0 THEN Num(0)
  ELSE NumAdd(SumLevels(SubSeq(entries, 1, Len(entries) - 1)),
              LevelNum(entries[Len(entries)].level))

TotalLevel(char) == SumLevels(ClassEntries(char))

\* lines 105-107: the entries with a name
ClassesInfo(char) ==
  LET Named(c) == Truthy(c.name) IN SelectSeq(ClassEntries(char), Named)

\* lines 115-127
AbilityNames ==
  <<"strength", "dexterity", "constitution", "intelligence", "wisdom", "charisma">>

AbilityOf(char, abilName) ==
  LET abil == safeGet(char, <<"abilities", "0", abilName, "0">>, EmptyStr) IN
  IF Truthy(abil)
    THEN [present |-> TRUE,
          score |-> safeGet(abil, <<"score", "0">>, EmptyStr),
          bonus |-> safeGet(abil, <<"bonus", "0">>, EmptyStr),
          save |-> safeGet(abil, <<"save", "0">>, EmptyStr),
          saveprof |-> SameValue(safeGet(abil, <<"saveprof", "0">>, EmptyStr),
                                 Str(<<"1">>))]
    ELSE [present |-> FALSE, score |-> Undefined, bonus |-> Undefined,
          save |-> Undefined, saveprof |-> FALSE]

Abilities(char) ==
  [a \in {AbilityNames[i] : i \in 1..Len(AbilityNames)} |-> AbilityOf(char, a)]

\* String.prototype.toLowerCase() on the ASCII letters
UpperChars ==
  <<"A", "B", "C", "D", "E", "F", "G", "H", "I", "J", "K", "L", "M",
    "N", "O", "P", "Q", "R", "S", "T", "U", "V", "W", "X", "Y", "Z">>
LowerChars ==
  <<"a", "b", "c", "d", "e", "f", "g", "h", "i", "j", "k", "l", "m",
    "n", "o", "p", "q", "r", "s", "t", "u", "v", "w", "x", "y", "z">>
UpperSet == {UpperChars[i] : i \in 1..26}
LowerSet == {LowerChars[i] : i \in 1..26}
ToLowerChar(c) ==
  IF c \in UpperSet THEN LowerChars[CHOOSE i \in 1..26 : UpperChars[i] = c] ELSE c
ToLowerCase(s) == [i \in 1..Len(s) |-> ToLowerChar(s[i])]

\* String.prototype.includes(sub)
Includes(s, sub) ==
  \E i \in 1..(Len(s) - Len(sub) + 1) : SubSeq(s, i, i + Len(sub) - 1) = sub

\* mutant of ClassAbility: a class that matches nothing resets the ability
ClassAbilityResetting(name, current) ==
  LET className == ToLowerCase(name) IN
  IF Includes(className, <<"w", "i", "z", "a", "r", "d">>) THEN "intelligence"
  ELSE IF \/ Includes(className, <<"d", "r", "u", "i", "d">>)
          \/ Includes(className, <<"c", "l", "e", "r", "i", "c">>)
          \/ Includes(className, <<"r", "a", "n", "g", "e", "r">>) THEN "wisdom"
  ELSE IF \/ Includes(className, <<"p", "a", "l", "a", "d", "i", "n">>)
          \/ Includes(className, <<"s", "o", "r", "c", "e", "r", "e", "r">>)
          \/ Includes(className, <<"b", "a", "r", "d">>)
          \/ Includes(className, <<"w", "a", "r", "l", "o", "c", "k">>) THEN "charisma"
  ELSE "null"

\* lines 134-141: the spellcasting ability after one class, current being the
\* ability before it
ClassAbility(name, current) ==
  LET className == ToLowerCase(name) IN
  IF Includes(className, <<"w", "i", "z", "a", "r", "d">>) THEN "intelligence"
  ELSE IF \/ Includes(className, <<"d", "r", "u", "i", "d">>)
          \/ Includes(className, <<"c", "l", "e", "r", "i", "c">>)
          \/ Includes(className, <<"r", "a", "n", "g", "e", "r">>) THEN "wisdom"
  ELSE IF \/ Includes(className, <<"p", "a", "l", "a", "d", "i", "n">>)
          \/ Includes(className, <<"s", "o", "r", "c", "e", "r", "e", "r">>)
          \/ Includes(className, <<"b", "a", "r", "d">>)
          \/ Includes(className, <<"w", "a", "r", "l", "o", "c", "k">>) THEN "charisma"
  ELSE current

\* lines 130-142: classesInfo.forEach, "null" when no class matches
RECURSIVE AbilityAfter(_, _)
AbilityAfter(classes, n) ==
  IF n = 0 THEN "null"
  ELSE IF classes[n].name.t # "str" THEN "null"
  ELSE ClassAbility(classes[n].name.v, AbilityAfter(classes, n - 1))

SpellcastingAbility(char) ==
  AbilityAfter(ClassesInfo(char), Len(ClassesInfo(char)))

\* mutant of SpellcastingMod: parseInt(bonus) without `|| 0`
SpellcastingModUnguarded(char) ==
  LET sa == SpellcastingAbility(char) IN
  IF sa # "null" /\ Abilities(char)[sa].present
    THEN parseInt(Abilities(char)[sa].bonus)
    ELSE Num(0)

\* lines 131, 144-146
SpellcastingMod(char) ==
  LET sa == SpellcastingAbility(char) IN
  IF sa # "null" /\ Abilities(char)[sa].present
    THEN OrElse(parseInt(Abilities(char)[sa].bonus), Num(0))
    ELSE Num(0)

ProfBonus(char) == getProficiencyBonus(TotalLevel(char))

\* lines 149-150
SpellSaveDC(char) == NumAdd(NumAdd(Num(8), ProfBonus(char)), SpellcastingMod(char))
SpellAttackBonus(char) == NumAdd(ProfBonus(char), SpellcastingMod(char))

\* line 153: parseInt(abilities.strength?.bonus || 0)
StrMod(char) ==
  LET st == Abilities(char)["strength"] IN
  parseInt(IF st.present THEN OrElse(st.bonus, Num(0)) ELSE Num(0))

\* mutant of MeleeAttackBonus: dexMod in place of strMod
MeleeAttackBonusFinesse(char) ==
  LET dx == Abilities(char)["dexterity"] IN
  NumAdd(parseInt(IF dx.present THEN OrElse(dx.bonus, Num(0)) ELSE Num(0)), ProfBonus(char))

\* line 155
MeleeAttackBonus(char) == NumAdd(StrMod(char), ProfBonus(char))

\* lines 158-167
Hp(char) == safeGet(char, <<"hp", "0">>, EmptyObj)
HpTotal(char) == safeGet(Hp(char), <<"total", "0">>, Str(<<"0">>))
HpWounds(char) == safeGet(Hp(char), <<"wounds", "0">>, Str(<<"0">>))
HpTemp(char) == safeGet(Hp(char), <<"temporary", "0">>, Str(<<"0">>))
ArmorClass(char) ==
  safeGet(char, <<"defenses", "0", "ac", "0", "total", "0">>, Str(<<"1", "0">>))
Speed(char) == safeGet(char, <<"speed", "0", "total", "0">>, Str(<<"3", "0">>))

\* lines 170-173
Initiative(char) ==
  LET initiative == safeGet(char, <<"initiative", "0", "total", "0">>, EmptyStr) IN
  IF ~Truthy(initiative) /\ Abilities(char)["dexterity"].present
    THEN Abilities(char)["dexterity"].bonus
    ELSE initiative

\* ------------------------------------------------------------ rich text
\* the paragraphs of text split on the blank-line separator "\n\n"
\* (String.prototype.split), cur being the paragraph read so far
RECURSIVE SplitBlankLines(_, _)
SplitBlankLines(s, cur) ==
  IF Len(s) = 0 THEN <<cur>>
  ELSE IF Len(s) >= 2 /\ s[1] = "\n" /\ s[2] = "\n"
    THEN <<cur>> \o SplitBlankLines(SubSeq(s, 3, Len(s)), <<>>)
    ELSE SplitBlankLines(Tail(s), Append(cur, Head(s)))

NonEmptyTexts(texts) == LET Full(x) == Len(x) > 0 IN SelectSeq(texts, Full)

\* description.split('\n\n').filter(Boolean)
Paragraphs(description) == NonEmptyTexts(SplitBlankLines(description, <<>>))

\* lines 203-205, 339-341: the text of one paragraph element
ParagraphText(p) ==
  IF p.t = "str" THEN Trim(p.v)
  ELSE IF p.t = "obj" /\ HasKey(p, "_") /\ Truthy(GetProp(p, "_"))
    THEN Trim(GetProp(p, "_").v)
  ELSE <<>>

\* lines 199-207, 334-343: holder is feature.text / power.description
PlainDescription(holder) ==
  LET textObj == IF Truthy(holder) THEN GetProp(holder, "0") ELSE Undefined
      ps == IF Truthy(textObj) /\ IsObject(textObj) /\ HasKey(textObj, "p")
              THEN GetProp(textObj, "p") ELSE Undefined
  IN IF ps.t # "arr" THEN <<>>
     ELSE JoinText(NonEmptyTexts([i \in 1..Len(ps.v) |-> ParagraphText(ps.v[i])]),
                   <<"\n", "\n">>)

\* entry.text, entry.description: a property read of any value
Member(x, key) == IF IsObject(x) /\ HasKey(x, key) THEN GetProp(x, key) ELSE Undefined

\* ------------------------------------------------------------ spell slots, spells
SlotKeys ==
  <<"spellslots1", "spellslots2", "spellslots3", "spellslots4", "spellslots5",
    "spellslots6", "spellslots7", "spellslots8", "spellslots9">>

Powermeta(char) == safeGet(char, <<"powermeta", "0">>, EmptyObj)

\* lines 294-304: the entry of slot level i; present when it is stored
SpellSlot(char, i) ==
  LET holder == Member(Powermeta(char), SlotKeys[i])
      slot == IF Truthy(holder) THEN Member(holder, "0") ELSE Undefined
      maxSlots == safeGet(slot, <<"max", "0">>, Str(<<"0">>))
      usedSlots == safeGet(slot, <<"used", "0">>, Str(<<"0">>))
  IN IF Truthy(slot) /\ ~SameValue(maxSlots, Str(<<"0">>))
       THEN [present |-> TRUE, max |-> maxSlots, used |-> usedSlots]
       ELSE [present |-> FALSE, max |-> Undefined, used |-> Undefined]

SpellSlots(char) == [i \in 1..9 |-> SpellSlot(char, i)]

PowerEntries(char) == IdEntries(safeGet(char, <<"powers", "0">>, EmptyObj))

\* lines 307-321: the last power named "Sorcery Points" with max other than '0'
RECURSIVE SorceryAfter(_, _)
SorceryAfter(powers, n) ==
  IF n = 0 THEN [present |-> FALSE, max |-> Undefined, used |-> Undefined]
  ELSE LET power == powers[n]
           max == safeGet(power, <<"prepared", "0">>, Str(<<"0">>))
           used == safeGet(power, <<"locked", "0">>, Str(<<"0">>))
       IN IF /\ SameValue(safeGet(power, <<"name", "0">>, EmptyStr),
                          Str(<<"S", "o", "r", "c", "e", "r", "y", " ", "P", "o", "i", "n", "t", "s">>))
             /\ ~SameValue(max, Str(<<"0">>))
            THEN [present |-> TRUE, max |-> max, used |-> used]
            ELSE SorceryAfter(powers, n - 1)

SorceryPoints(char) == SorceryAfter(PowerEntries(char), Len(PowerEntries(char)))

\* line 332: (group.includes('Spells') || school) && level
IsSpell(power) ==
  LET group == safeGet(power, <<"group", "0">>, EmptyStr)
      level == safeGet(power, <<"level", "0">>, EmptyStr)
      school == safeGet(power, <<"school", "0">>, EmptyStr)
  IN /\ group.t = "str"
     /\ Includes(group.v, <<"S", "p", "e", "l", "l", "s">>) \/ Truthy(school)
     /\ Truthy(level)

\* lines 345-351
SpellOf(power) ==
  [name |-> safeGet(power, <<"name", "0">>, EmptyStr),
   level |-> safeGet(power, <<"level", "0">>, EmptyStr),
   prepared |-> safeGet(power, <<"prepared", "0">>, Str(<<"0">>)),
   school |-> safeGet(power, <<"school", "0">>, EmptyStr),
   description |-> PlainDescription(Member(power, "description"))]

\* lines 324-354: the spells in document order
UnsortedSpells(char) ==
  LET spellPowers == SelectSeq(PowerEntries(char), IsSpell) IN
  [i \in 1..Len(spellPowers) |-> SpellOf(spellPowers[i])]

\* ------------------------------------------------------------ sorting
\* String.prototype.localeCompare on the characters of the model: the primary
\* order puts white space first, then punctuation, symbols, digits and
\* letters; accents and then case (lower before upper) break ties
CollationOrder ==
  <<" ", "_", "-", "!", ".", "'", "\"", "&", "<", ">",
    "0", "1", "2", "3", "4", "5", "6", "7", "8", "9">> \o LowerChars

BaseChar(c) == IF c = "ï" THEN "i" ELSE ToLowerChar(c)

PrimaryRank(c) ==
  IF \E i \in 1..Len(CollationOrder) : CollationOrder[i] = BaseChar(c)
    THEN CHOOSE i \in 1..Len(CollationOrder) : CollationOrder[i] = BaseChar(c)
    ELSE 0

\* lexicographic comparison of a and b by Rank: -1, 0 or 1
RECURSIVE CompareBy(_, _, _)
CompareBy(Rank(_), a, b) ==
  IF Len(a) = 0 /\ Len(b) = 0 THEN 0
  ELSE IF Len(a) = 0 THEN -1
  ELSE IF Len(b) = 0 THEN 1
  ELSE IF Rank(Head(a)) < Rank(Head(b)) THEN -1
  ELSE IF Rank(Head(a)) > Rank(Head(b)) THEN 1
  ELSE CompareBy(Rank, Tail(a), Tail(b))

AccentRank(c) == IF c = "ï" THEN 1 ELSE 0
CaseRank(c) == IF c \in UpperSet THEN 1 ELSE 0

LocaleCompare(a, b) ==
  IF CompareBy(PrimaryRank, a, b) # 0 THEN CompareBy(PrimaryRank, a, b)
  ELSE IF CompareBy(AccentRank, a, b) # 0 THEN CompareBy(AccentRank, a, b)
  ELSE CompareBy(CaseRank, a, b)

\* lines 356-357: parseInt(level) || 99
SortLevel(spell) == OrElse(parseInt(spell.level), Num(99)).v

\* lines 355-360: the comparator of spells.sort, negative when a goes first
SpellCompare(a, b) ==
  IF SortLevel(a) # SortLevel(b) THEN SortLevel(a) - SortLevel(b)
  ELSE LocaleCompare(a.name.v, b.name.v)

\* x put into the sorted sequence after every element that does not follow it
InsertSpell(sorted, x) ==
  LET before == {i \in 1..Len(sorted) : SpellCompare(sorted[i], x) <= 0}
      k == IF before = {} THEN 0 ELSE CHOOSE i \in before : \A j \in before : j <= i
  IN SubSeq(sorted, 1, k) \o <<x>> \o SubSeq(sorted, k + 1, Len(sorted))

\* Array.prototype.sort with that comparator (a stable sort)
RECURSIVE SortSpells(_)
SortSpells(spells) ==
  IF Len(spells) <= 1 THEN spells
  ELSE InsertSpell(SortSpells(SubSeq(spells, 1, Len(spells) - 1)), spells[Len(spells)])

Spells(char) == SortSpells(UnsortedSpells(char))

\* ------------------------------------------------------------ lists
\* lines 176-188
UnsortedSkills(char) ==
  LET es == IdEntries(safeGet(char, <<"skilllist", "0">>, EmptyObj)) IN
  [i \in 1..Len(es) |->
     [name |-> safeGet(es[i], <<"name", "0">>, EmptyStr),
      total |-> safeGet(es[i], <<"total", "0">>, EmptyStr),
      prof |-> SameValue(safeGet(es[i], <<"prof", "0">>, EmptyStr), Str(<<"1">>)),
      stat |-> safeGet(es[i], <<"stat", "0">>, EmptyStr)]]

\* line 189: (a.name || '').localeCompare(b.name || '')
SkillCompare(a, b) == LocaleCompare(a.name.v, b.name.v)

InsertSkill(sorted, x) ==
  LET before == {i \in 1..Len(sorted) : SkillCompare(sorted[i], x) <= 0}
      k == IF before = {} THEN 0 ELSE CHOOSE i \in before : \A j \in before : j <= i
  IN SubSeq(sorted, 1, k) \o <<x>> \o SubSeq(sorted, k + 1, Len(sorted))

RECURSIVE SortSkills(_)
SortSkills(skills) ==
  IF Len(skills) <= 1 THEN skills
  ELSE InsertSkill(SortSkills(SubSeq(skills, 1, Len(skills) - 1)), skills[Len(skills)])

Skills(char) == SortSkills(UnsortedSkills(char))

\* lines 192-215
Features(char) ==
  LET es == IdEntries(safeGet(char, <<"featurelist", "0">>, EmptyObj)) IN
  [i \in 1..Len(es) |->
     [name |-> safeGet(es[i], <<"name", "0">>, EmptyStr),
      level |-> safeGet(es[i], <<"level", "0">>, EmptyStr),
      description |-> PlainDescription(Member(es[i], "text"))]]

\* lines 218-242
Feats(char) ==
  LET es == IdEntries(safeGet(char, <<"featlist", "0">>, EmptyObj)) IN
  [i \in 1..Len(es) |->
     [name |-> safeGet(es[i], <<"name", "0">>, EmptyStr),
      category |-> safeGet(es[i], <<"category", "0">>, EmptyStr),
      level |-> safeGet(es[i], <<"level", "0">>, EmptyStr),
      description |-> PlainDescription(Member(es[i], "text"))]]

\* lines 255-264: the text of one paragraph element of an item description
ItemParagraphText(p) ==
  IF p.t = "str" THEN Trim(p.v)
  ELSE IF p.t = "obj" /\ HasKey(p, "_") /\ Truthy(GetProp(p, "_"))
    THEN Trim(GetProp(p, "_").v)
  ELSE IF p.t = "obj" /\ HasKey(p, "b") /\ Truthy(Member(GetProp(p, "b"), "0"))
    THEN LET boldText == Member(GetProp(p, "b"), "0")
             restText == IF HasKey(p, "_") /\ Truthy(GetProp(p, "_"))
                           THEN Trim(GetProp(p, "_").v) ELSE <<>>
         IN (IF boldText.t = "str" THEN boldText.v ELSE <<>>) \o restText
  ELSE <<>>

\* lines 252-266
ItemDescription(holder) ==
  LET descObj == IF Truthy(holder) THEN GetProp(holder, "0") ELSE Undefined
      ps == IF Truthy(descObj) /\ IsObject(descObj) /\ HasKey(descObj, "p")
              THEN GetProp(descObj, "p") ELSE Undefined
  IN IF ps.t # "arr" THEN <<>>
     ELSE JoinText(NonEmptyTexts([i \in 1..Len(ps.v) |-> ItemParagraphText(ps.v[i])]),
                   <<"\n", "\n">>)

\* lines 245-275
Inventory(char) ==
  LET es == IdEntries(safeGet(char, <<"inventorylist", "0">>, EmptyObj)) IN
  [i \in 1..Len(es) |->
     [name |-> safeGet(es[i], <<"name", "0">>, EmptyStr),
      count |-> safeGet(es[i], <<"count", "0">>, Str(<<"1">>)),
      cost |-> safeGet(es[i], <<"cost", "0">>, EmptyStr),
      description |-> ItemDescription(Member(es[i], "description"))]]

\* lines 278-289, 902-904: coins[coinType] || '0', the last entry of a name
\* being the one stored
CoinOrder == <<<<"P", "P">>, <<"G", "P">>, <<"E", "P">>, <<"S", "P">>, <<"C", "P">>>>

RECURSIVE CoinAfter(_, _, _)
CoinAfter(es, n, coinType) ==
  IF n = 0 THEN Str(<<"0">>)
  ELSE IF SameValue(safeGet(es[n], <<"name", "0">>, EmptyStr), Str(coinType))
    THEN OrElse(safeGet(es[n], <<"amount", "0">>, Str(<<"0">>)), Str(<<"0">>))
    ELSE CoinAfter(es, n - 1, coinType)

CoinValue(char, coinType) ==
  LET es == IdEntries(safeGet(char, <<"coins", "0">>, EmptyObj)) IN
  CoinAfter(es, Len(es), coinType)

\* ------------------------------------------------------------ view model
\* lines 82-360: what generateCharacterHTML extracts from the tree
ViewOf(characterData) ==
  LET char == CharOf(characterData) IN
  [name |-> safeGet(char, <<"name", "0">>, EmptyStr),
   race |-> safeGet(char, <<"race", "0">>, EmptyStr),
   subrace |-> safeGet(char, <<"subrace", "0">>, EmptyStr),
   alignment |-> safeGet(char, <<"alignment", "0">>, EmptyStr),
   background |-> safeGet(char, <<"background", "0">>, EmptyStr),
   totalLevel |-> TotalLevel(char),
   classesInfo |-> ClassesInfo(char),
   profBonus |-> ProfBonus(char),
   abilities |-> Abilities(char),
   spellcastingAbility |-> SpellcastingAbility(char),
   spellcastingMod |-> SpellcastingMod(char),
   spellSaveDC |-> SpellSaveDC(char),
   spellAttackBonus |-> SpellAttackBonus(char),
   meleeAttackBonus |-> MeleeAttackBonus(char),
   hpTotal |-> HpTotal(char),
   hpWounds |-> HpWounds(char),
   hpTemp |-> HpTemp(char),
   ac |-> ArmorClass(char),
   speed |-> Speed(char),
   initiative |-> Initiative(char),
   skills |-> Skills(char),
   features |-> Features(char),
   feats |-> Feats(char),
   inventory |-> Inventory(char),
   coins |-> [i \in 1..Len(CoinOrder) |-> CoinValue(char, CoinOrder[i])],
   spellSlots |-> SpellSlots(char),
   sorceryPoints |-> SorceryPoints(char),
   spells |-> Spells(char)]

\* whether the extraction of lines 82-360 raises a TypeError: a value that is
\* an object where the code calls a string method on it or converts it
IsObj(x) == x.t = "obj"

ExtractionThrows(characterData) ==
  LET char == CharOf(characterData)
      classes == ClassEntries(char)
      skills == UnsortedSkills(char)
      powers == PowerEntries(char)
      coinEntries == IdEntries(safeGet(char, <<"coins", "0">>, EmptyObj))
      items == IdEntries(safeGet(char, <<"inventorylist", "0">>, EmptyObj))
      spells == SelectSeq(powers, IsSpell)
      sa == SpellcastingAbility(char)
  IN \/ \E i \in 1..Len(classes) : IsObj(classes[i].level) \/ IsObj(classes[i].name)
     \/ sa # "null" /\ Abilities(char)[sa].present /\ IsObj(Abilities(char)[sa].bonus)
     \/ Abilities(char)["strength"].present /\ IsObj(Abilities(char)["strength"].bonus)
     \/ Abilities(char)["dexterity"].present /\ IsObj(Abilities(char)["dexterity"].bonus)
     \/ Len(skills) >= 2 /\ \E i \in 1..Len(skills) : IsObj(skills[i].name)
     \/ \E i \in 1..Len(coinEntries) :
          IsObj(safeGet(coinEntries[i], <<"name", "0">>, EmptyStr))
     \/ \E i \in 1..Len(powers) : IsObj(safeGet(powers[i], <<"group", "0">>, EmptyStr))
     \/ Len(spells) >= 2 /\ \E i \in 1..Len(spells) :
          \/ IsObj(safeGet(spells[i], <<"level", "0">>, EmptyStr))
          \/ IsObj(safeGet(spells[i], <<"name", "0">>, EmptyStr))
     \/ \E i \in 1..Len(items) :
          LET d == Member(items[i], "description")
              ps == IF Truthy(d) THEN Member(GetProp(d, "0"), "p") ELSE Undefined
          IN ps.t = "arr" /\ \E j \in 1..Len(ps.v) :
               /\ ps.v[j].t = "obj" /\ ~HasKey(ps.v[j], "_") /\ HasKey(ps.v[j], "b")
               /\ IsObj(Member(GetProp(ps.v[j], "b"), "0"))

\* ------------------------------------------------------------ rendering
\* The document is the sequence of its parts: "lit" a piece of the fixed
\* markup, "val" an interpolated value `${...}` (its characters, or Throw when
\* the conversion raises), "box" a checkbox marker (v is 'checked' or '').
Lit(id) == <<[k |-> "lit", id |-> id, v |-> EmptyStr]>>
Val(id, x) == <<[k |-> "val", id |-> id, v |-> JsString(x)]>>
Box(id, checked) ==
  <<[k |-> "box", id |-> id, v |-> IF checked THEN Str(<<"c", "h", "e", "c", "k", "e", "d">>) ELSE EmptyStr]>>

RECURSIVE Flatten(_)
Flatten(seqs) == IF Len(seqs) = 0 THEN <<>> ELSE Head(seqs) \o Flatten(Tail(seqs))

\* a template literal of values and fixed text: the characters, or Throw
Template(parts) ==
  IF \E i \in 1..Len(parts) : ToStringThrows(parts[i]) THEN Throw
  ELSE Str(Flatten([i \in 1..Len(parts) |-> ToText(parts[i])]))

\* the paragraphs of a description, each escaped (lines 807-808)
ParagraphParts(id, description) ==
  LET ps == Paragraphs(description) IN
  Flatten([i \in 1..Len(ps) |-> Val(id, escapeHtml(Str(ps[i])))])

\* mutant of Bubbles: `i <= used` in place of `i < used`
BubblesOneMore(id, max, used) ==
  IF max.t # "num" \/ max.v <= 0 THEN <<>>
  ELSE Flatten([i \in 1..max.v |-> Box(id, used.t = "num" /\ i - 1 <= used.v)])

\* lines 931-934, 952-955: max markers, those before used checked
Bubbles(id, max, used) ==
  IF max.t = "throw" \/ used.t = "throw" THEN Val(id, Throw)
  ELSE IF max.t # "num" \/ max.v <= 0 THEN <<>>
  ELSE Flatten([i \in 1..max.v |-> Box(id, used.t = "num" /\ i - 1 < used.v)])

\* lines 363-714
RenderHeader(v) ==
  Val("title", OrElse(escapeHtml(v.name), Str(<<"U", "n", "k", "n", "o", "w", "n">>)))
  \o Val("name", OrElse(escapeHtml(v.name), Str(<<"C", "h", "a", "r", "a", "c", "t", "e", "r", " ", "N", "a", "m", "e">>)))
  \o (IF Truthy(v.race)
        THEN Val("race", escapeHtml(
               IF Truthy(v.subrace)
                 THEN Template(<<v.race, Str(<<" ", "(">>), v.subrace, Str(<<")">>)>>)
                 ELSE v.race))
        ELSE <<>>)
  \o (IF Len(v.classesInfo) > 0
        THEN Val("classes", escapeHtml(
               IF \E i \in 1..Len(v.classesInfo) :
                    ToStringThrows(v.classesInfo[i].name)
                      \/ ToStringThrows(v.classesInfo[i].level)
                 THEN Throw
                 ELSE Str(JoinText([i \in 1..Len(v.classesInfo) |->
                            ToText(v.classesInfo[i].name) \o <<" ">>
                              \o ToText(v.classesInfo[i].level)], <<",", " ">>))))
        ELSE <<>>)
  \o (IF Truthy(v.background) THEN Val("background", escapeHtml(v.background)) ELSE <<>>)
  \o (IF Truthy(v.alignment) THEN Val("alignment", escapeHtml(v.alignment)) ELSE <<>>)
  \o Val("profBonus", formatModifier(v.profBonus))

\* lines 721-735
RenderAbility(v, abilName) ==
  LET abilData == v.abilities[abilName] IN
  Lit(abilName)
  \o Val("score", escapeHtml(OrElse(abilData.score, Str(<<"1", "0">>))))
  \o Val("bonus", formatModifier(OrElse(abilData.bonus, Str(<<"0">>))))
  \o Val("save", formatModifier(OrElse(abilData.save, Str(<<"0">>))))

\* lines 738-751
RenderSkills(v) ==
  Lit("Skills")
  \o Flatten([i \in 1..Len(v.skills) |->
       Val("skill.name", escapeHtml(v.skills[i].name))
       \o Val("skill.total", formatModifier(v.skills[i].total))])

\* lines 755-797
RenderVitals(v) ==
  Lit("Hit Points")
  \o Val("hpTotal", escapeHtml(v.hpTotal))
  \o Val("hpWounds", v.hpWounds)
  \o Val("hpTemp", v.hpTemp)
  \o Lit("Combat Stats")
  \o Val("ac", escapeHtml(v.ac))
  \o Val("initiative", formatModifier(v.initiative))
  \o Val("speed", escapeHtml(v.speed))
  \o Val("profBonus", formatModifier(v.profBonus))
  \o Val("meleeAttackBonus", formatModifier(v.meleeAttackBonus))

\* lines 799-828
RenderFeatures(v) ==
  Lit("Features")
  \o (IF Len(v.features) = 0 THEN Lit("No features")
      ELSE Flatten([i \in 1..Len(v.features) |->
             LET feature == v.features[i] IN
             Val("feature.name", escapeHtml(feature.name))
             \o Val("feature.level", escapeHtml(feature.level))
             \o (IF Len(feature.description) > 0
                   THEN Val("feature.name", escapeHtml(feature.name))
                        \o ParagraphParts("feature.description", feature.description)
                   ELSE <<>>)]))

\* lines 830-859
RenderFeats(v) ==
  Lit("Feats")
  \o (IF Len(v.feats) = 0 THEN Lit("No feats")
      ELSE Flatten([i \in 1..Len(v.feats) |->
             LET feat == v.feats[i] IN
             Val("feat.name", escapeHtml(feat.name))
             \o (IF Len(feat.description) > 0
                   THEN Val("feat.name", escapeHtml(feat.name))
                        \o ParagraphParts("feat.description", feat.description)
                   ELSE <<>>)]))

\* lines 866-896
RenderEquipment(v) ==
  Lit("Equipment")
  \o (IF Len(v.inventory) = 0 THEN Lit("No equipment")
      ELSE Flatten([i \in 1..Len(v.inventory) |->
             LET item == v.inventory[i]
                 countText == IF ~SameValue(item.count, Str(<<"1">>))
                                THEN Template(<<Str(<<" ", "x">>), item.count>>)
                                ELSE EmptyStr
             IN Val("item.name", escapeHtml(item.name))
                \o Val("item.count", escapeHtml(countText))
                \o (IF Len(item.description) > 0
                      THEN Val("item.name", escapeHtml(item.name))
                           \o ParagraphParts("item.description", item.description)
                      ELSE <<>>)]))

\* lines 898-912
RenderWealth(v) ==
  Lit("Wealth")
  \o Flatten([i \in 1..Len(CoinOrder) |-> Val("coin", escapeHtml(v.coins[i]))])

\* lines 918-941
RenderSpellSlots(v) ==
  IF \A i \in 1..9 : ~v.spellSlots[i].present THEN <<>>
  ELSE Lit("Spell Slots")
       \o Flatten([i \in 1..9 |->
            IF ~v.spellSlots[i].present THEN <<>>
            ELSE Lit(SlotKeys[i])
                 \o Bubbles(SlotKeys[i], parseInt(v.spellSlots[i].max),
                            parseInt(OrElse(v.spellSlots[i].used, Str(<<"0">>))))])

\* lines 944-959
RenderSorceryPoints(v) ==
  IF ~v.sorceryPoints.present THEN <<>>
  ELSE Lit("Sorcery Points")
       \o Bubbles("sorcery", parseInt(v.sorceryPoints.max), parseInt(v.sorceryPoints.used))

\* line 988: the group a spell is listed under
LevelGroup(spell) ==
  IF Truthy(spell.level) /\ ~SameValue(spell.level, Str(<<"0">>))
    THEN JsString(spell.level) ELSE Str(<<"C", "a", "n", "t", "r", "i", "p">>)

\* lines 993-997: 'Cantrip' first, then the levels by parseInt
GroupRank(level) ==
  IF SameValue(level, Str(<<"C", "a", "n", "t", "r", "i", "p">>)) THEN -1
  ELSE IF parseInt(level).t = "num" THEN parseInt(level).v ELSE 0

\* the distinct groups of the spells [1..n], ordered by GroupRank
RECURSIVE LevelOrder(_, _)
LevelOrder(spells, n) ==
  IF n = 0 THEN <<>>
  ELSE LET rest == LevelOrder(spells, n - 1)
           g == LevelGroup(spells[n])
           before == {i \in 1..Len(rest) : GroupRank(rest[i]) <= GroupRank(g)}
           k == IF before = {} THEN 0 ELSE CHOOSE i \in before : \A j \in before : j <= i
       IN IF \E i \in 1..Len(rest) : SameValue(rest[i], g) THEN rest
          ELSE SubSeq(rest, 1, k) \o <<g>> \o SubSeq(rest, k + 1, Len(rest))

\* lines 1007-1027
RenderSpell(spell) ==
  Val("spell.name", escapeHtml(spell.name))
  \o (IF Truthy(spell.school) THEN Val("spell.school", escapeHtml(spell.school)) ELSE <<>>)
  \o ParagraphParts("spell.description", spell.description)

\* lines 962-1033
RenderSpells(v) ==
  IF Len(v.spells) = 0 THEN <<>>
  ELSE
    LET levels == LevelOrder(v.spells, Len(v.spells)) IN
    Lit("Spellcasting")
    \o Val("spellSaveDC", escapeHtml(JsString(v.spellSaveDC)))
    \o Val("spellAttackBonus", formatModifier(v.spellAttackBonus))
    \o Lit("Spells")
    \o Flatten([g \in 1..Len(levels) |->
         LET In(sp) == SameValue(LevelGroup(sp), levels[g])
             levelSpells == SelectSeq(v.spells, In)
         IN Val("spell.level", escapeHtml(levels[g]))
            \o Val("spell.count", Num(Len(levelSpells)))
            \o Flatten([i \in 1..Len(levelSpells) |-> RenderSpell(levelSpells[i])])])

\* lines 363-1057: the document
Render(v) ==
  Lit("<!DOCTYPE html>")
  \o RenderHeader(v)
  \o Flatten([i \in 1..Len(AbilityNames) |-> RenderAbility(v, AbilityNames[i])])
  \o RenderSkills(v)
  \o RenderVitals(v)
  \o RenderFeatures(v)
  \o RenderFeats(v)
  \o RenderEquipment(v)
  \o RenderWealth(v)
  \o RenderSpellSlots(v)
  \o RenderSorceryPoints(v)
  \o RenderSpells(v)
  \o Lit("</html>")

\* mutant of Rendered: a conversion that raises ends the document where it
\* stands and the document is returned
RenderedPartial(v) ==
  CHOOSE out \in {[threw |-> FALSE, view |-> v,
                   html |-> LET Raises(i) == doc[i].v.t = "throw"
                                first == IF \E i \in 1..Len(doc) : Raises(i)
                                           THEN CHOOSE i \in 1..Len(doc) :
                                                  Raises(i) /\ \A j \in 1..(i - 1) : ~Raises(j)
                                           ELSE Len(doc) + 1
                            IN SubSeq(doc, 1, first - 1)] :
                  doc \in {Render(v)}} : TRUE

\* lines 363-1059: the document of the extracted values v, a TypeError when a
\* conversion in it raises
Rendered(v) ==
  CHOOSE out \in {IF \E i \in 1..Len(doc) : doc[i].v.t = "throw"
                    THEN [threw |-> TRUE, view |-> v, html |-> <<>>]
                    ELSE [threw |-> FALSE, view |-> v, html |-> doc] :
                  doc \in {Render(v)}} : TRUE

\* generateCharacterHTML(characterData): [threw, view, html]
generateCharacterHTML(characterData) ==
  IF ExtractionThrows(characterData)
    THEN [threw |-> TRUE, view |-> NoValue, html |-> <<>>]
  ELSE CHOOSE out \in {Rendered(v) : v \in {ViewOf(characterData)}} : TRUE

\* ------------------------------------------------------------ POST /generate
\* lines 1084-1096: the filename derived from the parsed document
\* mutant of AllowedChar: the space is not among the characters kept
AllowedCharNoSpace(c) == c \in LowerSet \cup UpperSet \cup DigitSet \cup {"_", "-"}

AllowedChar(c) == c \in LowerSet \cup UpperSet \cup DigitSet \cup {" ", "_", "-"}

\* mutant of CleanName: the stripped name is not trimmed
CleanNameUntrimmed(s) == SelectSeq(s, AllowedChar)

\* String(charName).replace(/[^a-zA-Z0-9 _-]/g, '').trim()
CleanName(s) == Trim(SelectSeq(s, AllowedChar))

DefaultFilename == <<"c", "h", "a", "r", "a", "c", "t", "e", "r", "_", "s", "h", "e", "e", "t", ".", "h", "t", "m", "l">>

CharName(result) ==
  OrElse(safeGet(result, <<"root", "character", "0", "name", "0">>, EmptyStr), EmptyStr)

Filename(result) ==
  LET charName == CharName(result) IN
  IF ~Truthy(charName) \/ ToStringThrows(charName) THEN DefaultFilename
  ELSE IF Len(CleanName(ToText(charName))) = 0 THEN DefaultFilename
  ELSE CleanName(ToText(charName)) \o <<".", "h", "t", "m", "l">>

\* line 1101: result.root || result
CharacterData(result) ==
  IF HasKey(result, "root") /\ Truthy(GetProp(result, "root"))
    THEN GetProp(result, "root") ELSE result

NoResponse ==
  [sent |-> 0, status |-> 0, json |-> FALSE, success |-> "absent", error |-> FALSE,
   html |-> <<>>, filename |-> <<>>, name |-> NoValue]

\* res.status(code).json({ error: ... }) (lines 1074, 1118)
ErrorResponse(code) ==
  [sent |-> 1, status |-> code, json |-> TRUE, success |-> "absent", error |-> TRUE,
   html |-> <<>>, filename |-> <<>>, name |-> NoValue]

\* upload.single('file') (lines 10-20, 1071): a file that is not .xml or is
\* over the size limit is refused with an error handed to Express, whose
\* default error handler answers 500 with an HTML error page; the route
\* handler does not run
MulterUpload ==
  /\ pc = "received"
  /\ IF req.file \in {"notxml", "toolarge"}
       THEN /\ res' = [NoResponse EXCEPT !.sent = 1, !.status = 500, !.error = TRUE]
            /\ pc' = "done"
       ELSE /\ res' = res
            /\ pc' = "handler"
  /\ UNCHANGED <<call, ret, req, tree, view, html>>

\* lines 1072-1081: up to the await of parser.parseStringPromise
HandlerStart ==
  /\ pc = "handler"
  /\ IF req.file = "none"
       THEN /\ res' = ErrorResponse(400)
            /\ pc' = "done"
       ELSE /\ res' = res
            /\ pc' = "parsing"
  /\ UNCHANGED <<call, ret, req, tree, view, html>>

\* ------------------------------------------------------------ uploads
\* The uploaded documents: <root><character>...</character></root> with the
\* elements a Fantasy Grounds export holds.
IdKeySeq == <<"id-00001", "id-00002", "id-00003", "id-00004">>
Field(tag, text, typed) == IF typed THEN Typed(tag, text) ELSE Leaf(tag, text)
CharDoc(kids) == Elem("root", <<Elem("character", kids)>>)
BaseDoc == CharDoc(<<Typed("name", <<"B", "o", "b">>)>>)

NameTexts ==
  {<<>>, <<"B", "o", "b">>, <<"M", "ï", "r", "a", " ", "O", "'", "B", "r", "i", "e", "n", "!", "!">>, <<"<", "b", ">", "&", "\"">>, <<" ", "_", "-", "9", " ">>, <<"!", "!">>, <<" ", " ">>, <<"A", "_", "b", "-", "1", " ", "z">>}
NameKids ==
  {<<>>} \cup {<<Field("name", s, ty)>> : s \in NameTexts, ty \in BOOLEAN}
IdentityKids ==
  {<<>>,
   <<Leaf("race", <<"E", "l", "f">>)>>,
   <<Typed("race", <<"E", "l", "f">>), Typed("subrace", <<"H", "i", "g", "h">>), Typed("background", <<"S", "a", "g", "e">>),
     Typed("alignment", <<"N">>)>>,
   <<Typed("subrace", <<"H", "i", "g", "h">>)>>}
IdentityDocs == {CharDoc(n \o o) : n \in NameKids, o \in IdentityKids}

\* a character every text field of which is s
SpecialTexts == {<<"<", "i", ">">>, <<"a", "&", "b">>, <<"\"", "x", "\"", " ", ">", " ", "'", "y", "'">>, <<"7">>}
Para(s) == <<Leaf("p", s), Leaf("p", s)>>
FullCharacter(s, ty) ==
  CharDoc(<<
    Field("name", s, ty), Field("race", s, ty), Field("subrace", s, ty),
    Field("alignment", s, ty), Field("background", s, ty),
    Elem("classes", <<Elem("id-00001", <<Field("name", s, ty), Field("level", s, ty)>>)>>),
    Elem("abilities", <<Elem("strength",
      <<Field("score", s, ty), Field("bonus", s, ty), Field("save", s, ty)>>)>>),
    Elem("hp", <<Field("total", s, ty), Field("wounds", s, ty), Field("temporary", s, ty)>>),
    Elem("defenses", <<Elem("ac", <<Field("total", s, ty)>>)>>),
    Elem("speed", <<Field("total", s, ty)>>),
    Elem("initiative", <<Field("total", s, ty)>>),
    Elem("skilllist", <<Elem("id-00001", <<Field("name", s, ty), Field("total", s, ty)>>)>>),
    Elem("featurelist", <<Elem("id-00001",
      <<Field("name", s, ty), Field("level", s, ty), Elem("text", Para(s))>>)>>),
    Elem("featlist", <<Elem("id-00001", <<Field("name", s, ty), Elem("text", Para(s))>>)>>),
    Elem("inventorylist", <<Elem("id-00001",
      <<Field("name", s, ty), Field("count", s, ty), Elem("description", Para(s))>>)>>),
    Elem("coins", <<Elem("id-00001", <<Field("name", <<"G", "P">>, ty), Field("amount", s, ty)>>)>>),
    Elem("powers", <<Elem("id-00001",
      <<Field("name", s, ty), Field("level", s, ty), Field("school", s, ty),
        Field("group", <<"S", "p", "e", "l", "l", "s">>, ty), Elem("description", Para(s))>>)>>)
  >>)
FullDocs == {FullCharacter(s, ty) : s \in SpecialTexts, ty \in BOOLEAN}

\* characters with up to MaxClasses classes
\* the class entries: a name and a level text, <<>> for an element that is
\* absent; "x" is a level that is no number
ClassCombos ==
  {<<<<"W", "i", "z", "a", "r", "d">>, <<"3">>>>, <<<<"F", "i", "g", "h", "t", "e", "r">>, <<"2">>>>, <<<<"C", "l", "e", "r", "i", "c">>, <<>>>>, <<<<"W", "A", "R", "L", "O", "C", "K">>, <<"x">>>>,
   <<<<"E", "l", "d", "r", "i", "t", "c", "h", " ", "K", "n", "i", "g", "h", "t">>, <<"1">>>>, <<<<"B", "a", "r", "d">>, <<"3">>>>, <<<<>>, <<"4">>>>, <<<<"F", "i", "g", "h", "t", "e", "r">>, <<"x">>>>}
ClassKids(i) ==
  {<<Elem(IdKeySeq[i],
          (IF c[1] = <<>> THEN <<>> ELSE <<Typed("name", c[1])>>)
            \o (IF c[2] = <<>> THEN <<>> ELSE <<Typed("level", c[2])>>))>> :
     c \in ClassCombos}
RECURSIVE ClassLists(_)
ClassLists(n) ==
  IF n = 0 THEN {<<>>}
  ELSE ClassLists(n - 1)
         \cup {cs \o c : cs \in {x \in ClassLists(n - 1) : Len(x) = n - 1}, c \in ClassKids(n)}
ClassDocs ==
  {CharDoc(<<Typed("name", <<"B", "o", "b">>), Elem("classes", cs)>>) : cs \in ClassLists(MaxClasses)}

\* characters with spell slot entries at levels 3 and 9 and with sorcery points
MaxTexts == {<<>>, <<"0">>, <<"0", "0">>, <<"2">>, <<"3">>}
UsedTexts == {<<"1">>, <<"2">>, <<"5">>}
MaxKids(tag) == {<<>>} \cup {<<Typed(tag, s)>> : s \in MaxTexts}
UsedKids(tag) == {<<>>} \cup {<<Typed(tag, s)>> : s \in UsedTexts}
SlotKids(tag) ==
  {<<>>} \cup {<<Elem(tag, m \o u)>> : m \in MaxKids("max"), u \in UsedKids("used")}
SlotDocs ==
  {CharDoc(<<Elem("powermeta", a \o b)>>) :
     a \in SlotKids("spellslots3"), b \in SlotKids("spellslots9")}
SorceryDocs ==
  {CharDoc(<<Elem("powers",
     <<Elem("id-00001", <<Typed("name", <<"S", "o", "r", "c", "e", "r", "y", " ", "P", "o", "i", "n", "t", "s">>)>> \o m \o u)>>)>>) :
     m \in MaxKids("prepared"), u \in UsedKids("locked")}

\* characters with up to MaxSpells spells
SpellNames == {<<"A">>, <<"Z">>}
SpellLevels == {<<"0">>, <<"1">>, <<"2">>}
SpellKids(i) ==
  {<<Elem(IdKeySeq[i],
      <<Typed("name", n), Typed("level", l), Typed("group", <<"S", "p", "e", "l", "l", "s">>)>>)>> :
     n \in SpellNames, l \in SpellLevels}
RECURSIVE SpellLists(_)
SpellLists(n) ==
  IF n = 0 THEN {<<>>}
  ELSE SpellLists(n - 1)
         \cup {ss \o sp : ss \in {x \in SpellLists(n - 1) : Len(x) = n - 1}, sp \in SpellKids(n)}
SpellDocs == {CharDoc(<<Elem("powers", ss)>>) : ss \in SpellLists(MaxSpells)}

\* characters with one class and with stored ability bonuses, numeric or not
StatClassNames == {<<"F", "i", "g", "h", "t", "e", "r">>, <<"W", "a", "r", "l", "o", "c", "k">>, <<"W", "i", "z", "a", "r", "d">>}
StatLevels == {<<"5">>, <<"x">>}
BonusTexts == {<<>>, <<"3">>, <<"-", "1">>, <<"a", "b", "c">>, <<"0">>}
AbilityKids(abilName, score) ==
  {<<>>, <<Elem(abilName, <<Typed("score", score)>>)>>}
    \cup {<<Elem(abilName, <<Typed("score", score), Field("bonus", b, b # <<>>)>>)>> :
             b \in BonusTexts}
\* one class (Fighter, level 5), one ability (strength, score 16, bonus 3) and
\* nothing else, but for the dexterity element dx
MinimalFighter(dx) ==
  CharDoc(<<Elem("classes", <<Elem("id-00001", <<Typed("name", <<"F", "i", "g", "h", "t", "e", "r">>), Typed("level", <<"5">>)>>)>>),
            Elem("abilities",
                 <<Elem("strength", <<Typed("score", <<"1", "6">>), Typed("bonus", <<"3">>)>>)>> \o dx)>>)
StatDocs ==
  {CharDoc(<<Elem("classes", <<Elem("id-00001", <<Typed("name", n), Typed("level", l)>>)>>),
             Elem("abilities", st \o i \o ch)>>) :
     n \in StatClassNames, l \in StatLevels,
     st \in AbilityKids("strength", <<"1", "6">>),
     i \in {<<>>, <<Elem("intelligence", <<Typed("bonus", <<"2">>)>>)>>},
     ch \in AbilityKids("charisma", <<"1", "2">>)}
    \cup {MinimalFighter(dx) : dx \in AbilityKids("dexterity", <<"1", "8">>)}

\* the elements of s at the positions of I, in order
Pick(s, I) ==
  LET F[i \in 0..Len(s)] ==
        IF i = 0 THEN <<>> ELSE IF i \in I THEN Append(F[i - 1], s[i]) ELSE F[i - 1]
  IN F[Len(s)]
SubSeqs(s) == {Pick(s, I) : I \in SUBSET (1..Len(s))}

\* characters with fields and subtrees absent: of a character with every
\* field, at most two subtrees kept or at most one left out; one entry or
\* subtree with any of its fields left out; no character element at all
CompleteKids == FullCharacter(<<"7">>, TRUE).kids[1].kids
SparseDocs ==
  LET all == 1..Len(CompleteKids) IN
  {CharDoc(Pick(CompleteKids, {i, j})) : i \in all, j \in all}
    \cup {CharDoc(Pick(CompleteKids, all \ {i})) : i \in all}
    \cup {CharDoc(Pick(CompleteKids, all))}
    \cup UNION {{CharDoc(<<Elem(CompleteKids[i].tag, sub)>>) :
                   sub \in SubSeqs(CompleteKids[i].kids)} : i \in all}
    \cup UNION {{CharDoc(<<Elem(CompleteKids[i].tag,
                               <<Elem(CompleteKids[i].kids[1].tag, sub)>>)>>) :
                   sub \in SubSeqs(CompleteKids[i].kids[1].kids)} :
                 i \in {k \in all : Len(CompleteKids[k].kids) > 0}}
    \cup {Elem("root", <<>>), CharDoc(<<>>)}

\* items whose description has up to MaxParagraphs paragraphs: plain text,
\* an empty paragraph, a bold lead-in followed by text, a bold lead-in alone
BoldLead == <<"S", "p", "l", "a", "s", "h", ".", " ">>
ParagraphElements ==
  {Leaf("p", <<"P", "l", "a", "i", "n">>), Leaf("p", <<"O", "t", "h", "e", "r">>), Leaf("p", <<>>),
   Mixed("p", <<"R", "e", "s", "t">>, <<Leaf("b", BoldLead)>>),
   Mixed("p", <<>>, <<Leaf("b", BoldLead)>>)}
RECURSIVE ParagraphLists(_)
ParagraphLists(n) ==
  IF n = 0 THEN {<<>>}
  ELSE ParagraphLists(n - 1)
         \cup {Append(ps, q) : ps \in {x \in ParagraphLists(n - 1) : Len(x) = n - 1},
                               q \in ParagraphElements}
ItemDoc(ps) ==
  CharDoc(<<Typed("name", <<"B", "o", "b">>),
            Elem("inventorylist",
                 <<Elem("id-00001", <<Typed("name", <<"F", "l", "a", "s", "k">>), Elem("description", ps)>>)>>)>>)
InventoryDocs == {ItemDoc(ps) : ps \in ParagraphLists(MaxParagraphs)}

Documents ==
  IdentityDocs \cup FullDocs \cup ClassDocs \cup SlotDocs \cup SorceryDocs \cup SpellDocs
    \cup StatDocs \cup SparseDocs \cup InventoryDocs

Requests ==
  {[file |-> "xml", wellFormed |-> TRUE, doc |-> d] : d \in Documents}
    \cup {[file |-> f, wellFormed |-> TRUE, doc |-> BaseDoc] : f \in {"none", "notxml", "toolarge"}}
    \cup {[file |-> "xml", wellFormed |-> FALSE, doc |-> BaseDoc]}

\* lines 1081-1111 on a well-formed upload: the parsed result, what
\* generateCharacterHTML(result.root || result) gives and the response; an
\* exception raised by the generation is answered by the catch of line 1116
Generate(result) ==
  CHOOSE h \in {[tree |-> result, view |-> out.view, html |-> out.html,
                 res |-> IF out.threw THEN ErrorResponse(500)
                         ELSE [sent |-> 1, status |-> 200, json |-> TRUE,
                               success |-> "true", error |-> FALSE,
                               html |-> out.html,
                               filename |-> Filename(result),
                               name |-> OrElse(CharName(result),
                                               Str(<<"C", "h", "a", "r", "a", "c", "t", "e", "r", " ", "S", "h", "e", "e", "t">>))]] :
                out \in {generateCharacterHTML(CharacterData(result))}} : TRUE

\* what the handler does with each of the uploads
Handled ==
  UNION {{[doc |-> d, then |-> Generate(result)] : result \in {ParseResult(d)}} :
           d \in Documents}

\* lines 1081-1119: the promise settles and the handler runs to its response
HandlerFinish ==
  /\ pc = "parsing"
  /\ pc' = "done"
  /\ IF ~req.wellFormed
       THEN /\ res' = ErrorResponse(500)
            /\ UNCHANGED <<tree, view, html>>
       ELSE \E h \in {x \in Handled : x.doc = req.doc} :
            /\ tree' = h.then.tree
            /\ view' = h.then.view
            /\ html' = h.then.html
            /\ res' = h.then.res
  /\ UNCHANGED <<call, ret, req>>

Next == MulterUpload \/ HandlerStart \/ HandlerFinish

Init ==
  /\ pc = "received"
  /\ req \in Requests
  /\ tree = NoValue
  /\ view = NoValue
  /\ html = <<>>
  /\ res = NoResponse
  /\ call = Call("none", NoValue, <<>>, NoValue)
  /\ ret = NoValue

Spec == Init /\ [][Next]_vars

\* every step of a request is taken: multer calls the handler, the parser's
\* promise settles, the handler runs to its response
FairSpec == Spec /\ WF_vars(Next)

\* ------------------------------------------------------------ helper calls
\* One call of a helper function: call holds the function and its arguments,
\* ret the value returned (NoValue before the call returns).
RECURSIVE WrapIn(_, _)
WrapIn(x, n) == IF n = 0 THEN x ELSE WrapIn(Arr(<<x>>), n - 1)

Scalars == {Str(<<>>), Str(<<"x">>)}
WrappedScalars == {WrapIn(s, n) : s \in Scalars, n \in 0..MaxWrap}

\* arrays and objects built over the values of S
Containers(S) ==
  {Arr(<<>>)}
    \cup {Arr(<<x>>) : x \in S}
    \cup {Arr(<<x, Str(<<"y">>)>>) : x \in S}
    \cup {Obj(<<Prop("a", x)>>) : x \in S}
    \cup {Obj(<<Prop("a", x), Prop("b", Str(<<"y">>))>>) : x \in S}
    \cup {Obj(<<Prop("_", x)>>) : x \in Scalars}
    \cup {Obj(<<Prop("$t", x), Prop("a", Str(<<"y">>))>>) : x \in Scalars}

Trees1 == WrappedScalars \cup Containers(WrappedScalars)
Trees == Trees1 \cup Containers(Trees1)

Segments == {"a", "0", "1", "length"}
Paths == UNION {[1..n -> Segments] : n \in 1..MaxPathLen}
Defaults == {Str(<<"D">>), EmptyStr}

SafeGetCalls == {Call("safeGet", x, p, d) : x \in Trees, p \in Paths, d \in Defaults}
\* values that parseInt does not read as an integer: absent, empty, not numeric
Unparsable == {Undefined, EmptyStr, Str(<<"a", "b", "c">>), Str(<<" ">>), Str(<<"-">>)}

LevelCalls ==
  {Call("getProficiencyBonus", Num(n), <<>>, EmptyStr) : n \in 0..MaxLevel}
    \cup {Call("getProficiencyBonus", Str(IntText(n)), <<>>, EmptyStr) : n \in 0..MaxLevel}
    \cup {Call("getProficiencyBonus", x, <<>>, EmptyStr) : x \in Unparsable}

ModifierCalls ==
  {Call("formatModifier", Num(n), <<>>, EmptyStr) : n \in (0 - MaxModifier)..MaxModifier}
    \cup {Call("formatModifier", Str(IntText(n)), <<>>, EmptyStr) :
             n \in (0 - MaxModifier)..MaxModifier}
    \cup {Call("formatModifier", Str(<<"+">> \o NatText(n)), <<>>, EmptyStr) :
             n \in 0..MaxModifier}
    \cup {Call("formatModifier", x, <<>>, EmptyStr) : x \in Unparsable}

\* the integer a getProficiencyBonus call is given, as a number or as its text
LevelGiven(c) ==
  IF c.obj \in Unparsable THEN -1
  ELSE CHOOSE n \in 0..MaxLevel : c.obj = Num(n) \/ c.obj = Str(IntText(n))

IdleRequest == [file |-> "none"]

InitCalls ==
  /\ call \in SafeGetCalls \cup LevelCalls \cup ModifierCalls
  /\ ret = NoValue
  /\ pc = "idle"
  /\ req = IdleRequest
  /\ tree = NoValue
  /\ view = NoValue
  /\ html = <<>>
  /\ res = NoValue

CallSafeGet ==
  /\ call.fn = "safeGet"
  /\ ret = NoValue
  /\ ret' = safeGet(call.obj, call.path, call.def)
  /\ UNCHANGED <<call, pc, req, tree, view, html, res>>

CallGetProficiencyBonus ==
  /\ call.fn = "getProficiencyBonus"
  /\ ret = NoValue
  /\ ret' = getProficiencyBonus(call.obj)
  /\ UNCHANGED <<call, pc, req, tree, view, html, res>>

CallFormatModifier ==
  /\ call.fn = "formatModifier"
  /\ ret = NoValue
  /\ ret' = formatModifier(call.obj)
  /\ UNCHANGED <<call, pc, req, tree, view, html, res>>

NextCalls == CallSafeGet \/ CallGetProficiencyBonus \/ CallFormatModifier

SpecCalls == InitCalls /\ [][NextCalls]_vars

\* ------------------------------------------------------------ claims on helpers
Returned(fn) == call.fn = fn /\ ret.t # "none"

\* the tree read as data: a segment is present when it is a key of the
\* mapping or an index of the sequence reached so far
RECURSIVE PathInTree(_, _, _)
PathInTree(x, path, i) ==
  IF i > Len(path) THEN TRUE
  ELSE CASE x.t = "obj" ->
              \E j \in 1..Len(x.v) :
                x.v[j].key = path[i] /\ PathInTree(x.v[j].val, path, i + 1)
         [] x.t = "arr" ->
              \E j \in 1..Len(x.v) :
                ArrayIndex(path[i]) = j /\ PathInTree(x.v[j], path, i + 1)
         [] OTHER -> FALSE

\* the value a present path leads to
RECURSIVE ValueAt(_, _, _)
ValueAt(x, path, i) ==
  IF i > Len(path) THEN x
  ELSE IF x.t = "obj"
    THEN ValueAt((CHOOSE pr \in {x.v[j] : j \in 1..Len(x.v)} : pr.key = path[i]).val,
                 path, i + 1)
    ELSE ValueAt(x.v[ArrayIndex(path[i])], path, i + 1)

\* C1: whenever some segment of the path is missing from the tree (the value
\* reached is no mapping/sequence, or lacks the key or index), safeGet
\* returns exactly the supplied default.
C1_DefaultOnMissingPath ==
  (Returned("safeGet") /\ ~PathInTree(call.obj, call.path, 1))
    => SameValue(ret, call.def)

\* C2 as stated: every scalar s wrapped in n >= 1 nested single-element
\* sequences is read back as s.
C2_UnwrapEveryScalar ==
  \A s \in Scalars, n \in 1..MaxWrap :
    (/\ Returned("safeGet")
     /\ PathInTree(call.obj, call.path, 1)
     /\ ValueAt(call.obj, call.path, 1) = WrapIn(s, n))
      => SameValue(ret, s)

\* C2 amended: every non-empty scalar s wrapped in n >= 1 nested
\* single-element sequences is read back as s; the empty scalar is read back
\* as the supplied default.
C2_UnwrapNonEmptyScalar ==
  \A s \in Scalars, n \in 1..MaxWrap :
    (/\ Returned("safeGet")
     /\ PathInTree(call.obj, call.path, 1)
     /\ ValueAt(call.obj, call.path, 1) = WrapIn(s, n))
      => SameValue(ret, IF Len(s.v) > 0 THEN s ELSE call.def)

C2_Witness ==
  /\ Returned("safeGet")
  /\ PathInTree(call.obj, call.path, 1)
  /\ ValueAt(call.obj, call.path, 1) = WrapIn(Str(<<"x">>), MaxWrap)
  /\ SameValue(ret, Str(<<"x">>))

\* C4: for a total level L in 1..MaxLevel the bonus b is the integer with
\* 4 * (b - 2) < L <= 4 * (b - 1), that is 2 + floor((L - 1) / 4); levels
\* 1, 4, 5, 9, 17 and 20 give 2, 2, 3, 4, 6 and 6.
C4_ProficiencyBonusTable ==
  (Returned("getProficiencyBonus") /\ LevelGiven(call) >= 1)
    => LET L == LevelGiven(call) IN
       /\ ret.t = "num"
       /\ 4 * (ret.v - 2) < L
       /\ L <= 4 * (ret.v - 1)
       /\ (L \in {1, 4} => ret.v = 2)
       /\ (L = 5 => ret.v = 3)
       /\ (L = 9 => ret.v = 4)
       /\ (L \in {17, 20} => ret.v = 6)

C4_Witness ==
  /\ Returned("getProficiencyBonus")
  /\ LevelGiven(call) = 20
  /\ call.obj.t = "str"
  /\ SameValue(ret, Num(6))

\* ------------------------------------------------------------ claims on helpers (2)
\* C16: getProficiencyBonus returns 2 whenever its argument cannot be read
\* as an integer (absent, empty or not numeric).
C16_UnparsableLevelGivesTwo ==
  (Returned("getProficiencyBonus") /\ call.obj \in Unparsable)
    => SameValue(ret, Num(2))

\* the integer a formatModifier call is given: as a number, as its decimal
\* text, or as the text with an explicit "+"
ModifierGiven(c) ==
  CHOOSE n \in (0 - MaxModifier)..MaxModifier :
    \/ c.obj = Num(n)
    \/ c.obj = Str(IntText(n))
    \/ (n >= 0 /\ c.obj = Str(<<"+">> \o NatText(n)))

\* C17: an argument that is the integer n gives "+" followed by n for
\* n >= 0 and "-" followed by |n| for n < 0; an argument that is not
\* numeric (the empty string included) is returned unchanged.
C17_FormatModifier ==
  Returned("formatModifier") =>
    IF call.obj \in Unparsable THEN SameValue(ret, call.obj)
    ELSE LET n == ModifierGiven(call) IN
         SameValue(ret, Str(IF n >= 0 THEN <<"+">> \o NatText(n)
                            ELSE <<"-">> \o NatText(0 - n)))

\* the text held under a marker key of a mapping, the value itself otherwise
MarkerText(x) ==
  IF x.t = "obj" /\ \E j \in 1..Len(x.v) : x.v[j].key = "_"
    THEN (CHOOSE pr \in {x.v[j] : j \in 1..Len(x.v)} : pr.key = "_").val
  ELSE IF x.t = "obj" /\ \E j \in 1..Len(x.v) : x.v[j].key = "$t"
    THEN (CHOOSE pr \in {x.v[j] : j \in 1..Len(x.v)} : pr.key = "$t").val
  ELSE x

\* absent, the empty string, or a zero-length sequence
IsEmptyValue(x) == x.t = "undef" \/ x = EmptyStr \/ x = Arr(<<>>)

\* the value a present path leads to, single-element sequences unwrapped and
\* the marker text taken
FinalValue(c) == MarkerText(Unwrap(ValueAt(c.obj, c.path, 1)))

\* C18: when the value left after the walk, the unwrapping and the marker
\* extraction is empty (absent, '', or a zero-length sequence) safeGet
\* returns the default; otherwise it returns that value.
C18_DefaultAppliedLast ==
  (Returned("safeGet") /\ PathInTree(call.obj, call.path, 1))
    => SameValue(ret, IF IsEmptyValue(FinalValue(call)) THEN call.def
                      ELSE FinalValue(call))

\* C18 without its two failing cases: a marker holding '' and a zero-length
\* sequence
C18_ExceptEmptyMarkerAndSequence ==
  (/\ Returned("safeGet")
   /\ PathInTree(call.obj, call.path, 1)
   /\ Unwrap(ValueAt(call.obj, call.path, 1)) = FinalValue(call)
   /\ FinalValue(call) # Arr(<<>>))
    => SameValue(ret, IF IsEmptyValue(FinalValue(call)) THEN call.def
                      ELSE FinalValue(call))

\* ------------------------------------------------------------ claims on /generate
\* the request was answered with the generated document
Succeeded == pc = "done" /\ res.status = 200

\* the text of the character's name element in the uploaded document, and
\* whether there is one
DocCharacterKids ==
  IF Len(req.doc.kids) = 0 THEN <<>> ELSE req.doc.kids[1].kids
DocHasName == \E i \in 1..Len(DocCharacterKids) : DocCharacterKids[i].tag = "name"
DocName ==
  DocCharacterKids[CHOOSE i \in 1..Len(DocCharacterKids) :
                     /\ DocCharacterKids[i].tag = "name"
                     /\ \A j \in 1..(i - 1) : DocCharacterKids[j].tag # "name"].text

\* an interpolated text holds &, <, >, " and ' in entity form only
Entities ==
  {<<"&", "a", "m", "p", ";">>, <<"&", "l", "t", ";">>, <<"&", "g", "t", ";">>, <<"&", "q", "u", "o", "t", ";">>, <<"&", "#", "0", "3", "9", ";">>}
EntityForm(s) ==
  \A i \in 1..Len(s) :
    /\ s[i] \notin {"<", ">", "\"", "'"}
    /\ s[i] = "&" => \E e \in Entities :
                        i + Len(e) - 1 <= Len(s) /\ SubSeq(s, i, i + Len(e) - 1) = e

\* C3: in the document returned, every interpolated value holds the
\* characters & < > " ' in entity form only (name, race, classes, ability
\* scores, hit points, wounds, temporary hit points, armor class, speed, ...).
C3_EveryFieldEscaped ==
  Succeeded => \A i \in 1..Len(res.html) :
                 res.html[i].k = "val" => EntityForm(res.html[i].v.v)

\* C5: the spells sequence is sorted by numeric level ascending, then by name,
\* the cantrips (level 0) before every spell of level 1 or more.
SpellLevelNumber(spell) == CHOOSE n \in 0..9 : NatText(n) = spell.level.v
C5_SpellsSortedByLevelThenName ==
  Succeeded => \A i, j \in 1..Len(view.spells) :
                 i < j =>
                   \/ SpellLevelNumber(view.spells[i]) < SpellLevelNumber(view.spells[j])
                   \/ /\ SpellLevelNumber(view.spells[i]) = SpellLevelNumber(view.spells[j])
                      /\ LocaleCompare(view.spells[i].name.v, view.spells[j].name.v) <= 0

\* the number a text of digits denotes (the empty text: none, read as 0)
Denotes(s) ==
  IF \A i \in 1..Len(s) : s[i] = "0" THEN 0
  ELSE CHOOSE n \in 1..99 : NatText(n) = s

\* the text of <max> in the slot entry of a level of the uploaded document,
\* empty when the entry or its max is absent
DocSlotMax(tag) ==
  LET pm == DocCharacterKids[1].kids
      entries == {i \in 1..Len(pm) : pm[i].tag = tag}
      e == pm[CHOOSE i \in entries : TRUE]
      maxes == {i \in 1..Len(e.kids) : e.kids[i].tag = "max"}
  IN IF entries = {} \/ maxes = {} THEN <<>>
     ELSE e.kids[CHOOSE i \in maxes : TRUE].text

HasSection(title) == \E i \in 1..Len(res.html) : res.html[i] = Lit(title)[1]

\* C6: the document has a "Spell Slots" section if and only if some slot
\* level has an entry whose max is nonzero.
C6_SlotSectionIffNonzeroMax ==
  (Succeeded /\ req.doc \in SlotDocs)
    => (HasSection("Spell Slots")
          <=> \E i \in 1..9 : Denotes(DocSlotMax(SlotKeys[i])) # 0)

\* the markers rendered under id, in order: TRUE for a checked one
Markers(id) ==
  LET Mine(part) == part.k = "box" /\ part.id = id
      boxes == SelectSeq(res.html, Mine)
  IN [i \in 1..Len(boxes) |-> Len(boxes[i].v.v) > 0]

Minimum(a, b) == IF a < b THEN a ELSE b

ExactMarkers(id, m, u) ==
  /\ Len(Markers(id)) = m
  /\ \A i \in 1..m : Markers(id)[i] <=> i <= Minimum(u, m)

\* C7: every rendered slot level, and the sorcery points, with max = m and
\* used = u show exactly m markers, the first min(u, m) of them checked.
C7_MarkersMaxAndUsed ==
  Succeeded =>
    /\ \A i \in 1..9 :
         view.spellSlots[i].present =>
           ExactMarkers(SlotKeys[i], Denotes(view.spellSlots[i].max.v),
                        Denotes(view.spellSlots[i].used.v))
    /\ view.sorceryPoints.present =>
         ExactMarkers("sorcery", Denotes(view.sorceryPoints.max.v),
                      Denotes(view.sorceryPoints.used.v))

C7_Witness ==
  /\ Succeeded
  /\ view.spellSlots[3].present
  /\ view.spellSlots[3].max.v = <<"2">>
  /\ view.spellSlots[3].used.v = <<"5">>
  /\ Markers("spellslots3") = <<TRUE, TRUE>>
  /\ view.spellSlots[9].present
  /\ view.spellSlots[9].max.v = <<"3">>
  /\ view.spellSlots[9].used.v = <<"1">>
  /\ Markers("spellslots9") = <<TRUE, FALSE, FALSE>>

\* the characters a download filename keeps: ASCII letters, digits, space,
\* underscore, hyphen
KeptChars ==
  {"a", "b", "c", "d", "e", "f", "g", "h", "i", "j", "k", "l", "m",
   "n", "o", "p", "q", "r", "s", "t", "u", "v", "w", "x", "y", "z",
   "A", "B", "C", "D", "E", "F", "G", "H", "I", "J", "K", "L", "M",
   "N", "O", "P", "Q", "R", "S", "T", "U", "V", "W", "X", "Y", "Z",
   "0", "1", "2", "3", "4", "5", "6", "7", "8", "9", " ", "_", "-"}

\* t is s without the characters that are not kept
IsStripped(t, s) ==
  \E keep \in SUBSET (1..Len(s)) :
    /\ \A i \in 1..Len(s) : i \in keep <=> s[i] \in KeptChars
    /\ Len(t) = Cardinality(keep)
    /\ \A i \in keep : t[Cardinality({j \in keep : j <= i})] = s[i]

\* t is s without its leading and trailing spaces
IsTrimmed(t, s) ==
  \E i \in 1..(Len(s) + 1), j \in 0..Len(s) :
    /\ t = SubSeq(s, i, j)
    /\ \A k \in 1..(i - 1) : s[k] = " "
    /\ \A k \in (j + 1)..Len(s) : s[k] = " "
    /\ t # <<>> => t[1] # " " /\ t[Len(t)] # " "

HtmlSuffix == <<".", "h", "t", "m", "l">>
StemOf(filename) == SubSeq(filename, 1, Len(filename) - Len(HtmlSuffix))

\* C8: the filename of a generated document is the character name with every
\* character outside letters, digits, space, underscore and hyphen removed,
\* trimmed, followed by ".html"; it is "character_sheet.html" when the name is
\* absent, empty, or empty after stripping and trimming.
C8_FilenameFromName ==
  Succeeded =>
    LET name == IF DocHasName THEN DocName ELSE <<>>
        stripped == SelectSeq(name, LAMBDA c : c \in KeptChars)
        blank == \A i \in 1..Len(stripped) : stripped[i] = " "
    IN /\ IsStripped(stripped, name)
       /\ IF blank THEN res.filename = <<"c", "h", "a", "r", "a", "c", "t", "e", "r", "_", "s", "h", "e", "e", "t", ".", "h", "t", "m", "l">>
          ELSE /\ Len(res.filename) > Len(HtmlSuffix)
               /\ SubSeq(res.filename, Len(res.filename) - Len(HtmlSuffix) + 1,
                         Len(res.filename)) = HtmlSuffix
               /\ IsTrimmed(StemOf(res.filename), stripped)

C8_Witness ==
  /\ Succeeded
  /\ DocHasName
  /\ DocName = <<" ", "_", "-", "9", " ">>
  /\ res.filename = <<"_", "-", "9", ".", "h", "t", "m", "l">>

C8_WitnessDefault ==
  /\ Succeeded
  /\ DocHasName
  /\ DocName = <<"!", "!">>
  /\ res.filename = <<"c", "h", "a", "r", "a", "c", "t", "e", "r", "_", "s", "h", "e", "e", "t", ".", "h", "t", "m", "l">>

IsMira == DocHasName /\ DocName = <<"M", "ï", "r", "a", " ", "O", "'", "B", "r", "i", "e", "n", "!", "!">>

\* C9 as stated: the name "Mïra O'Brien!!" gives the filename "MraOBrien.html".
C9_MiraWithoutSpace ==
  (Succeeded /\ IsMira) => res.filename = <<"M", "r", "a", "O", "B", "r", "i", "e", "n", ".", "h", "t", "m", "l">>

\* C9: the name "Mïra O'Brien!!" gives the filename "Mra OBrien.html": the
\* ï, the apostrophe and the exclamation marks are removed, the space is kept.
C9_MiraKeepsSpace ==
  (Succeeded /\ IsMira) => res.filename = <<"M", "r", "a", " ", "O", "B", "r", "i", "e", "n", ".", "h", "t", "m", "l">>

C9_Witness ==
  Succeeded /\ IsMira /\ res.filename = <<"M", "r", "a", " ", "O", "B", "r", "i", "e", "n", ".", "h", "t", "m", "l">>

\* the keywords of the spellcasting classes and the ability each one gives
CasterKeywords ==
  {<<<<"w", "i", "z", "a", "r", "d">>, "intelligence">>,
   <<<<"c", "l", "e", "r", "i", "c">>, "wisdom">>, <<<<"d", "r", "u", "i", "d">>, "wisdom">>, <<<<"r", "a", "n", "g", "e", "r">>, "wisdom">>,
   <<<<"s", "o", "r", "c", "e", "r", "e", "r">>, "charisma">>, <<<<"b", "a", "r", "d">>, "charisma">>,
   <<<<"w", "a", "r", "l", "o", "c", "k">>, "charisma">>, <<<<"p", "a", "l", "a", "d", "i", "n">>, "charisma">>}

\* kw occurs in name, whatever the case of the letters of name
Occurs(kw, name) ==
  \E off \in 0..(Len(name) - Len(kw)) :
    \A k \in 1..Len(kw) : ToLowerChar(name[off + k]) = kw[k]

AbilitiesOf(name) == {p[2] : p \in {q \in CasterKeywords : Occurs(q[1], name)}}

\* C10: the spellcasting ability is set by the last class of the list whose
\* name holds a keyword (wizard: intelligence; cleric, druid, ranger: wisdom;
\* sorcerer, bard, warlock, paladin: charisma); a class that matches none
\* leaves the ability found so far in place.
C10_LastMatchingClassWins ==
  Succeeded =>
    LET classes == view.classesInfo
        matching == {i \in 1..Len(classes) : AbilitiesOf(classes[i].name.v) # {}}
    IN IF matching = {} THEN view.spellcastingAbility = "null"
       ELSE LET last == CHOOSE i \in matching : \A j \in matching : j <= i
            IN view.spellcastingAbility \in AbilitiesOf(classes[last].name.v)

C10_Witness ==
  /\ Succeeded
  /\ Len(view.classesInfo) = 2
  /\ view.classesInfo[1].name.v = <<"W", "i", "z", "a", "r", "d">>
  /\ view.classesInfo[2].name.v = <<"F", "i", "g", "h", "t", "e", "r">>
  /\ view.spellcastingAbility = "intelligence"

\* the integer a signed decimal text denotes, 0 for any other value
IntegerOf(x) ==
  IF x.t = "str" /\ \E n \in -99..99 : IntText(n) = x.v
    THEN CHOOSE n \in -99..99 : IntText(n) = x.v
    ELSE 0

\* the stored bonus of the resolved spellcasting ability, 0 when no ability is
\* resolved or the ability has no stored bonus
StoredSpellcastingBonus ==
  IF view.spellcastingAbility = "null" THEN 0
  ELSE IF ~view.abilities[view.spellcastingAbility].present THEN 0
  ELSE IntegerOf(view.abilities[view.spellcastingAbility].bonus)

ClassNamesShown == [i \in 1..Len(view.classesInfo) |-> view.classesInfo[i].name.v]

\* C11: spellSaveDC = 8 + proficiencyBonus + spellcastingModifier and
\* spellAttackBonus = proficiencyBonus + spellcastingModifier, the modifier
\* being the stored bonus of the resolved ability and 0 when there is none;
\* ["Fighter"] gives 8 + proficiencyBonus and proficiencyBonus, ["Warlock"]
\* uses the charisma bonus for both.
C11_SpellSaveDCAndAttack ==
  Succeeded =>
    /\ view.profBonus.t = "num"
    /\ view.spellSaveDC = Num(8 + view.profBonus.v + StoredSpellcastingBonus)
    /\ view.spellAttackBonus = Num(view.profBonus.v + StoredSpellcastingBonus)
    /\ ClassNamesShown = <<<<"F", "i", "g", "h", "t", "e", "r">>>> =>
         /\ view.spellSaveDC = Num(8 + view.profBonus.v)
         /\ view.spellAttackBonus = view.profBonus
    /\ (ClassNamesShown = <<<<"W", "a", "r", "l", "o", "c", "k">>>> /\ view.abilities["charisma"].present) =>
         /\ view.spellSaveDC
              = Num(8 + view.profBonus.v + IntegerOf(view.abilities["charisma"].bonus))
         /\ view.spellAttackBonus
              = Num(view.profBonus.v + IntegerOf(view.abilities["charisma"].bonus))

C11_Witness ==
  /\ Succeeded
  /\ ClassNamesShown = <<<<"W", "a", "r", "l", "o", "c", "k">>>>
  /\ view.totalLevel = Num(5)
  /\ view.abilities["charisma"].present
  /\ view.abilities["charisma"].bonus = Str(<<"3">>)
  /\ view.abilities["strength"].present
  /\ view.abilities["strength"].bonus = Str(<<"-", "1">>)
  /\ view.spellSaveDC = Num(14)
  /\ view.spellAttackBonus = Num(6)

\* the texts interpolated under id in the document returned
Shown(id) ==
  LET Mine(part) == part.k = "val" /\ part.id = id
      parts == SelectSeq(res.html, Mine)
  IN [i \in 1..Len(parts) |-> parts[i].v.v]

IsMinimalFighter == \E dx \in AbilityKids("dexterity", <<"1", "8">>) : req.doc = MinimalFighter(dx)

\* C12: for one ability (strength, score 16, bonus 3), one class (Fighter,
\* level 5) and no skills, features or spells the document contains
\* "Fighter 5", shows proficiency bonus "+3" and melee attack bonus "+6"
\* (strength modifier plus proficiency bonus, whatever the dexterity), and has
\* neither a Spells section nor a Spell Slots section.
C12_MinimalFighterSheet ==
  (pc = "done" /\ IsMinimalFighter) =>
    /\ res.status = 200
    /\ Shown("classes") = <<<<"F", "i", "g", "h", "t", "e", "r", " ", "5">>>>
    /\ Shown("profBonus") = <<<<"+", "3">>, <<"+", "3">>>>
    /\ Shown("meleeAttackBonus") = <<<<"+", "6">>>>
    /\ ~HasSection("Spells")
    /\ ~HasSection("Spellcasting")
    /\ ~HasSection("Spell Slots")

C12_Witness ==
  /\ Succeeded
  /\ req.doc = MinimalFighter(<<Elem("dexterity", <<Typed("score", <<"1", "8">>), Typed("bonus", <<"-", "1">>)>>)>>)
  /\ Shown("meleeAttackBonus") = <<<<"+", "6">>>>
  /\ HasSection("</html>")

\* C13: every request that fails (no file, file refused by the .xml filter or
\* the size limit, XML parse failure, HTML generation failure) is answered
\* with a JSON envelope carrying success:false and an error message; every
\* request that succeeds is answered with {success:true, html, filename, name}.
C13_EnvelopeOnEveryOutcome ==
  pc = "done" =>
    IF res.status = 200
      THEN /\ res.json
           /\ res.success = "true"
           /\ res.html = html
           /\ Len(res.filename) > 0
           /\ res.name.t = "str"
      ELSE /\ res.json
           /\ res.success = "false"
           /\ res.error

\* the child elements of the character element of the uploaded document, none
\* when the document has no character element
UploadedKids == IF Len(req.doc.kids) = 0 THEN <<>> ELSE req.doc.kids[1].kids

\* whether the path of tags leads to an element below kids
RECURSIVE HasElement(_, _)
HasElement(kids, tags) ==
  \/ Len(tags) = 0
  \/ \E i \in 1..Len(kids) :
       /\ kids[i].tag = Head(tags)
       /\ \A j \in 1..(i - 1) : kids[j].tag # Head(tags)
       /\ HasElement(kids[i].kids, Tail(tags))

\* whether the path of tags leads to an element with text below kids
RECURSIVE HasText(_, _)
HasText(kids, tags) ==
  \E i \in 1..Len(kids) :
    /\ kids[i].tag = Head(tags)
    /\ \A j \in 1..(i - 1) : kids[j].tag # Head(tags)
    /\ IF Len(tags) = 1 THEN Len(kids[i].text) > 0
       ELSE HasText(kids[i].kids, Tail(tags))

\* what the sheet shows for a field of the complete character (text "7")
\* when the element is there, and its default when it is absent or empty
ShownOrDefault(tags, default) ==
  IF HasText(UploadedKids, tags) THEN <<<<"7">>>> ELSE <<default>>

\* C14: for a parsed tree from which any fields or subtrees are absent
\* (including one with no character element) generateCharacterHTML raises no
\* exception and returns a complete document in which the absent data is
\* replaced by its defaults.
C14_AbsentDataDefaults ==
  (pc = "done" /\ req.doc \in SparseDocs) =>
    /\ res.status = 200
    /\ res.html = html
    /\ Head(res.html) = Head(Lit("<!DOCTYPE html>"))
    /\ res.html[Len(res.html)] = Head(Lit("</html>"))
    /\ \A i \in 1..Len(res.html) : res.html[i].v.t = "str"
    /\ Shown("name") = ShownOrDefault(<<"name">>, <<"C", "h", "a", "r", "a", "c", "t", "e", "r", " ", "N", "a", "m", "e">>)
    /\ Shown("title") = ShownOrDefault(<<"name">>, <<"U", "n", "k", "n", "o", "w", "n">>)
    /\ Shown("hpTotal") = ShownOrDefault(<<"hp", "total">>, <<"0">>)
    /\ Shown("hpWounds") = ShownOrDefault(<<"hp", "wounds">>, <<"0">>)
    /\ Shown("hpTemp") = ShownOrDefault(<<"hp", "temporary">>, <<"0">>)
    /\ Shown("ac") = ShownOrDefault(<<"defenses", "ac", "total">>, <<"1", "0">>)
    /\ Shown("speed") = ShownOrDefault(<<"speed", "total">>, <<"3", "0">>)
    /\ Shown("score")[1] = ShownOrDefault(<<"abilities", "strength", "score">>, <<"1", "0">>)[1]
    /\ Len(Shown("score")) = Len(AbilityNames)
    /\ Len(Shown("coin")) = Len(CoinOrder)
    /\ ~HasText(UploadedKids, <<"coins", "id-00001", "amount">>) =>
         \A i \in 1..Len(CoinOrder) : Shown("coin")[i] = <<"0">>
    /\ ~HasElement(UploadedKids, <<"featurelist", "id-00001">>) => HasSection("No features")
    /\ ~HasElement(UploadedKids, <<"featlist", "id-00001">>) => HasSection("No feats")
    /\ ~HasElement(UploadedKids, <<"inventorylist", "id-00001">>) => HasSection("No equipment")
    /\ ~HasText(UploadedKids, <<"powers", "id-00001", "level">>) => ~HasSection("Spells")

C14_Witness ==
  /\ Succeeded
  /\ req.doc = Elem("root", <<>>)
  /\ Shown("name") = <<<<"C", "h", "a", "r", "a", "c", "t", "e", "r", " ", "N", "a", "m", "e">>>>
  /\ Shown("ac") = <<<<"1", "0">>>>
  /\ Shown("speed") = <<<<"3", "0">>>>
  /\ Shown("hpTotal") = <<<<"0">>>>
  /\ HasSection("No features")
  /\ res.html[Len(res.html)] = Head(Lit("</html>"))

\* the document is whole: it runs from the doctype to the closing tag and
\* every interpolation in it produced its text
WholeDocument(doc) ==
  /\ Len(doc) > 0
  /\ Head(doc) = Head(Lit("<!DOCTYPE html>"))
  /\ doc[Len(doc)] = Head(Lit("</html>"))
  /\ \A i \in 1..Len(doc) : doc[i].v.t = "str"

SuccessOutcome ==
  /\ res.status = 200
  /\ res.success = "true"
  /\ ~res.error
  /\ res.html = html
  /\ WholeDocument(res.html)

ErrorOutcome ==
  /\ res.status # 200
  /\ res.error
  /\ res.html = <<>>

\* C15: every request ends in exactly one of two outcomes with exactly one
\* response sent: a success response carrying the whole document returned by
\* generateCharacterHTML, or an error response carrying no HTML; a failure in
\* XML parsing or in HTML generation never gives a response with partial HTML.
C15_OneOutcomePerRequest ==
  /\ <>(pc = "done")
  /\ [](pc # "done" => res.sent = 0)
  /\ [](pc = "done" => /\ res.sent = 1
                       /\ SuccessOutcome \/ ErrorOutcome
                       /\ ~(SuccessOutcome /\ ErrorOutcome))
  /\ [][res.sent = 1 => res' = res]_vars

\* a request whose HTML generation failed, answered with an error and no HTML
C15_Witness ==
  /\ pc = "done"
  /\ req.file = "xml"
  /\ req.wellFormed
  /\ tree # NoValue
  /\ res.sent = 1
  /\ ErrorOutcome
  /\ res.status = 500


\* the sum of the levels of the first n classes of the classes sequence, a
\* level that is absent or no integer counting 0
RECURSIVE ShownLevels(_)
ShownLevels(n) ==
  IF n = 0 THEN 0
  ELSE ShownLevels(n - 1) + IntegerOf(view.classesInfo[n].level)

\* C19: after class extraction totalLevel is the sum of the levels of
\* exactly the classes held in the classes sequence (the classes shown on the
\* sheet), a level being 0 when absent or unparsable.
C19_TotalLevelOfShownClasses ==
  Succeeded => view.totalLevel = Num(ShownLevels(Len(view.classesInfo)))

\* an uploaded class entry has no name element
HasUnnamedClass ==
  \E j \in 1..Len(UploadedKids) :
    /\ UploadedKids[j].tag = "classes"
    /\ \E c \in 1..Len(UploadedKids[j].kids) :
         \A f \in 1..Len(UploadedKids[j].kids[c].kids) :
           UploadedKids[j].kids[c].kids[f].tag # "name"

\* C19 for the documents whose class entries all have a name
C19_WhenEveryClassNamed ==
  (Succeeded /\ ~HasUnnamedClass)
    => view.totalLevel = Num(ShownLevels(Len(view.classesInfo)))

\* the derived stats are integers in the view and in the document
IsIntegerText(s) == \E n \in -99..99 : s = IntText(n) \/ (n >= 0 /\ s = <<"+">> \o NatText(n))
AllIntegerTexts(shown) == \A i \in 1..Len(shown) : IsIntegerText(shown[i])

\* C20: for every input tree, one with non-numeric ability bonus texts
\* included, proficiencyBonus, spellSaveDC, spellAttackBonus and
\* meleeAttackBonus are integers, in the computed values and as rendered.
C20_DerivedStatsAreIntegers ==
  Succeeded =>
    /\ view.profBonus.t = "num"
    /\ view.spellSaveDC.t = "num"
    /\ view.spellAttackBonus.t = "num"
    /\ view.meleeAttackBonus.t = "num"
    /\ AllIntegerTexts(Shown("profBonus"))
    /\ AllIntegerTexts(Shown("spellSaveDC"))
    /\ AllIntegerTexts(Shown("spellAttackBonus"))
    /\ AllIntegerTexts(Shown("meleeAttackBonus"))

\* C20 without the melee attack bonus
C20_ExceptMelee ==
  Succeeded =>
    /\ view.profBonus.t = "num"
    /\ view.spellSaveDC.t = "num"
    /\ view.spellAttackBonus.t = "num"
    /\ AllIntegerTexts(Shown("profBonus"))
    /\ AllIntegerTexts(Shown("spellSaveDC"))
    /\ AllIntegerTexts(Shown("spellAttackBonus"))


\* a vitals field the document lacks is stored as a text that denotes an
\* integer and is shown as one
NumericFallback(tags, stored, id) ==
  ~HasText(UploadedKids, tags) =>
    /\ stored.t = "str"
    /\ IsIntegerText(stored.v)
    /\ Len(Shown(id)) = 1
    /\ AllIntegerTexts(Shown(id))

\* the document has neither an initiative total nor a dexterity bonus
LacksInitiative ==
  /\ ~HasText(UploadedKids, <<"initiative", "total">>)
  /\ ~HasText(UploadedKids, <<"abilities", "dexterity", "bonus">>)

\* C21: each vitals field (hpTotal, hpWounds, hpTemp, armorClass, speed,
\* initiative) holds a defined value with a numeric fallback when the
\* document lacks it, and the sheet shows no missing or non-numeric value for
\* it; initiative has a numeric fallback when the document has neither an
\* initiative total nor a dexterity ability.
C21_VitalsNumericFallback ==
  Succeeded =>
    /\ NumericFallback(<<"hp", "total">>, view.hpTotal, "hpTotal")
    /\ NumericFallback(<<"hp", "wounds">>, view.hpWounds, "hpWounds")
    /\ NumericFallback(<<"hp", "temporary">>, view.hpTemp, "hpTemp")
    /\ NumericFallback(<<"defenses", "ac", "total">>, view.ac, "ac")
    /\ NumericFallback(<<"speed", "total">>, view.speed, "speed")
    /\ LacksInitiative =>
         /\ view.initiative.t = "str"
         /\ IsIntegerText(view.initiative.v)
         /\ AllIntegerTexts(Shown("initiative"))

\* C21 without the initiative
C21_ExceptInitiative ==
  Succeeded =>
    /\ NumericFallback(<<"hp", "total">>, view.hpTotal, "hpTotal")
    /\ NumericFallback(<<"hp", "wounds">>, view.hpWounds, "hpWounds")
    /\ NumericFallback(<<"hp", "temporary">>, view.hpTemp, "hpTemp")
    /\ NumericFallback(<<"defenses", "ac", "total">>, view.ac, "ac")
    /\ NumericFallback(<<"speed", "total">>, view.speed, "speed")
    /\ ~LacksInitiative =>
         /\ view.initiative.t = "str"
         /\ Len(Shown("initiative")) = 1


\* the paragraph elements of the uploaded item's description, in document
\* order
UploadedParagraphs == req.doc.kids[1].kids[2].kids[1].kids[2].kids

\* the text of a paragraph element: the bold lead-in followed by the
\* trailing text, or the plain text
LeadInThenText(q) ==
  IF Len(q.kids) > 0 THEN q.kids[1].text \o q.text ELSE q.text

\* the non-empty texts of the first n paragraphs joined by a blank line
RECURSIVE JoinedParagraphs(_, _)
JoinedParagraphs(qs, n) ==
  IF n = 0 THEN <<>>
  ELSE LET before == JoinedParagraphs(qs, n - 1)
           this == LeadInThenText(qs[n])
       IN IF Len(this) = 0 THEN before
          ELSE IF Len(before) = 0 THEN this
          ELSE before \o <<"\n", "\n">> \o this

\* C22: an inventory description paragraph that begins with a bold lead-in
\* b and continues with text t is extracted as b followed by t; the
\* paragraphs keep document order, empty ones are dropped, and the rest are
\* joined with a blank line.
C22_BoldLeadInThenText ==
  (Succeeded /\ req.doc \in InventoryDocs) =>
    /\ Len(view.inventory) = 1
    /\ view.inventory[1].description
         = JoinedParagraphs(UploadedParagraphs, Len(UploadedParagraphs))

\* a paragraph of the uploaded description has a bold lead-in and trailing text
HasLeadInWithText ==
  \E i \in 1..Len(UploadedParagraphs) :
    Len(UploadedParagraphs[i].kids) > 0 /\ Len(UploadedParagraphs[i].text) > 0

\* C22 for descriptions without a bold lead-in followed by text
C22_WhenNoTrailingText ==
  (Succeeded /\ req.doc \in InventoryDocs /\ ~HasLeadInWithText) =>
    /\ Len(view.inventory) = 1
    /\ view.inventory[1].description
         = JoinedParagraphs(UploadedParagraphs, Len(UploadedParagraphs))


\* the proficiency bonus is shown as computed, and no smaller total level
\* gives a larger bonus
BonusShownAndMonotone ==
  /\ view.totalLevel.t = "num"
  /\ view.profBonus.t = "num"
  /\ \A i \in 1..Len(Shown("profBonus")) :
       Shown("profBonus")[i] = <<"+">> \o NatText(view.profBonus.v)
  /\ \A L \in 0..view.totalLevel.v :
       getProficiencyBonus(Num(L)).v <= view.profBonus.v

\* C23: for every input tree, one with no class entries or with levels that
\* are all absent or unparsable (total level 0) included, the proficiency
\* bonus computed and shown is at least 2, and it never decreases as the
\* total level grows.
C23_BonusAtLeastTwo ==
  Succeeded => (BonusShownAndMonotone /\ view.profBonus.v >= 2)

\* C23 for a total level of 1 or more, and what total level 0 gives
C23_WhenLevelPositive ==
  Succeeded =>
    /\ BonusShownAndMonotone
    /\ view.totalLevel.v >= 1 => view.profBonus.v >= 2
    /\ view.totalLevel.v = 0 => view.profBonus.v = 1

====
